---------------------------- MODULE Spec2Model ----------------------------
(***************************************************************************)
(* A model of pyqtdeploy's Builder (builder/builder.py) and of Project     *)
(* (project/project.py): what the Builder reads of it, save and load.      *)
(*                                                                         *)
(* Strings the code inspects character by character (file names, paths)   *)
(* are sequences of one-character strings, so that endswith(), slicing,    *)
(* os.path.join(), os.path.split() and '/'.join() are computed, not        *)
(* assumed.  Strings the code only compares whole (resource identifiers,   *)
(* PyQt module names, qmake tokens) are TLA+ strings.                      *)
(***************************************************************************)
EXTENDS Integers, Sequences, FiniteSets, TLC

VARIABLES
    project,      \* the Project the Builder was constructed with
    pc,           \* the position of the running operation
    error,        \* the exception that ended the operation, or NoError
    fs,           \* what the operation has put on disk and run so far
    todo,         \* Builder.build: the resources still to be written
    result        \* the value the last pure operation returned

vars == <<project, pc, error, fs, todo, result>>

(***************************************************************************)
(* Bounds of the model.                                                    *)
(***************************************************************************)
MaxNodes == 3
MaxDepth == 2
MaxPyQt == 2
MaxExt == 2

(***************************************************************************)
(* Character strings.                                                      *)
(***************************************************************************)
SEP == <<"/">>

EndsWith(s, suffix) ==
    /\ Len(s) >= Len(suffix)
    /\ SubSeq(s, Len(s) - Len(suffix) + 1, Len(s)) = suffix

StartsWith(s, prefix) ==
    /\ Len(s) >= Len(prefix)
    /\ SubSeq(s, 1, Len(prefix)) = prefix

\* s[:-n]
DropLast(s, n) == SubSeq(s, 1, Len(s) - n)

\* s.rfind('/') + 1: the index (0-based) just after the last separator.
AfterLastSep(s) ==
    LET idx == {i \in 1..Len(s) : s[i] = "/"}
    IN  IF idx = {} THEN 0 ELSE CHOOSE i \in idx : \A j \in idx : j <= i

\* posixpath.join(a, b)
PathJoin2(a, b) ==
    IF StartsWith(b, SEP) THEN b
    ELSE IF a = <<>> \/ EndsWith(a, SEP) THEN a \o b
    ELSE a \o SEP \o b

\* posixpath.join(*parts), parts not empty
RECURSIVE PathJoin(_)
PathJoin(parts) ==
    IF Len(parts) = 1 THEN parts[1]
    ELSE PathJoin2(PathJoin(SubSeq(parts, 1, Len(parts) - 1)), parts[Len(parts)])

\* posixpath.basename(p)
Basename(p) == SubSeq(p, AfterLastSep(p) + 1, Len(p))

\* str.rstrip('/')
RECURSIVE RStripSep(_)
RStripSep(s) == IF EndsWith(s, SEP) THEN RStripSep(DropLast(s, 1)) ELSE s

\* posixpath.split(p): <<head, tail>>
PathSplit(p) ==
    LET i == AfterLastSep(p)
        head == SubSeq(p, 1, i)
        tail == SubSeq(p, i + 1, Len(p))
    IN  <<IF RStripSep(head) = <<>> THEN head ELSE RStripSep(head), tail>>

\* posixpath.dirname(p)
Dirname(p) == PathSplit(p)[1]

\* sep.join(parts)
RECURSIVE StrJoin(_, _)
StrJoin(sep, parts) ==
    IF parts = <<>> THEN <<>>
    ELSE IF Len(parts) = 1 THEN parts[1]
    ELSE parts[1] \o sep \o StrJoin(sep, Tail(parts))


(***************************************************************************)
(* Character-string literals used by the code and by the inputs.           *)
(***************************************************************************)
EMPTY == <<>>
DOT == <<".">>
EXT_PY == <<".", "p", "y">>
EXT_PYW == <<".", "p", "y", "w">>
EXT_PYF == <<".", "p", "y", "f">>
RESOURCES == <<"r", "e", "s", "o", "u", "r", "c", "e", "s">>
STDLIB == <<"s", "t", "d", "l", "i", "b">>
SITE_PACKAGES ==
    <<"s", "i", "t", "e", "-", "p", "a", "c", "k", "a", "g", "e", "s">>
PYQTDEPLOY_QRC ==
    <<"p", "y", "q", "t", "d", "e", "p", "l", "o", "y", ".", "q", "r", "c">>
EXT_QRC == <<".", "q", "r", "c">>

(***************************************************************************)
(* project.py: QrcFile, QrcDirectory, QrcPackage.                          *)
(***************************************************************************)
QrcFile(name, included) ==
    [name |-> name, included |-> included, isdir |-> FALSE, contents |-> <<>>]

QrcDirectory(name, included, contents) ==
    [name |-> name, included |-> included, isdir |-> TRUE, contents |-> contents]

DefaultExclusions == <<"*.pyc", "*.pyo", "__pycache__", "*-info">>

QrcPackage(name, contents) ==
    [name |-> name, contents |-> contents, exclusions |-> DefaultExclusions]

(***************************************************************************)
(* Exceptions.  A UserException carries a text and a detail; the text is   *)
(* kept as the pieces str.format() puts together.                          *)
(***************************************************************************)
NoError == [type |-> "none"]

UserException(text, detail) ==
    [type |-> "UserException", text |-> text, detail |-> detail]

OSError == [type |-> "OSError"]

AttributeError(attr) == [type |-> "AttributeError", attr |-> attr]

(***************************************************************************)
(* The outside world.  An operation threads a record st through the calls  *)
(* it makes: st.fs is what is on disk and what has been run, st.err the    *)
(* exception being propagated (every call is skipped once one is raised),  *)
(* st.n the number of calls to the outside made so far.  st.fault names    *)
(* the call that goes wrong, if any, and how:                              *)
(*   "fail"    the call fails (for the freeze subprocess: exit status 1    *)
(*             with output);                                               *)
(*   "nostart" the freeze subprocess cannot be started;                    *)
(*   "warn"    the freeze subprocess prints output and exits with 0.       *)
(***************************************************************************)
NoFile == [exists |-> FALSE]

EmptyFs ==
    [dirs |-> {},           \* directories made by os.makedirs
     pro |-> NoFile,        \* the qmake .pro file
     main_c |-> NoFile,     \* main.c
     bootstrap |-> NoFile,  \* __bootstrap__.py
     version_h |-> FALSE,   \* pyqtdeploy_version.h written
     libs |-> {},           \* library files copied to the build directory
     tmp_freeze |-> FALSE,  \* the copy of freeze.py in the temp directory
     tmp_old |-> FALSE,     \* a copy of it an earlier build left there
     removed |-> <<>>,      \* the files removed, in the order of removal
     qrcs |-> <<>>,         \* the .qrc files in the order they were created
     copied |-> <<>>,       \* shutil.copyfile calls that succeeded
     frozen |-> <<>>]       \* freeze subprocesses run, with their outcomes

NoFault == [at |-> 0, how |-> "fail"]

\* The record a statement of the Builder works on: the disk, the exception
\* raised, the outside calls made, the fault the outside world holds, and the
\* Project the Builder was constructed with (self._project is the caller's
\* object, not a copy of it).
Start(f, fault) ==
    [fs |-> f, err |-> NoError, n |-> 0, fault |-> fault, project |-> project]

Ok(st) == st.err.type = "none"

Hit(st, how) == st.fault.at = st.n + 1 /\ st.fault.how = how

Raise(st, e) == [st EXCEPT !.err = e]

Tick(st) == [st EXCEPT !.n = st.n + 1]

\* The element of a one-element set: Only({e(x) : x \in {v}}) is e(v) with v
\* evaluated once.
Only(S) == CHOOSE x \in S : TRUE

\* Builder._create_directory
CreateDirectory(st0, dir_name) ==
    Only({IF ~Ok(st) THEN st
          ELSE IF Hit(st, "fail")
          THEN Raise(Tick(st),
                     UserException(<<"Unable to create the '", dir_name,
                                     "' directory.">>, "OSError"))
          ELSE [Tick(st) EXCEPT !.fs.dirs = @ \cup {dir_name}] :
          st \in {st0}})

\* What the freeze subprocess does: it cannot be started, or it ends with an
\* exit status and the output captured from it.
Subprocess(st) ==
    IF Hit(st, "nostart") THEN [started |-> FALSE]
    ELSE IF Hit(st, "fail")
    THEN [started |-> TRUE, exit |-> 1, out |-> "Traceback"]
    ELSE IF Hit(st, "warn")
    THEN [started |-> TRUE, exit |-> 0, out |-> "Warning"]
    ELSE [started |-> TRUE, exit |-> 0, out |-> ""]

\* A faulty variant: no exit status counts as a failure.
CalledProcessErrorNever(run) == FALSE

\* subprocess.check_output raises CalledProcessError
CalledProcessError(run) == run.exit # 0

\* Builder._freeze: the subprocess is run once; of what it raises only
\* CalledProcessError is caught.
Freeze(st0, output, py_filename, main, as_data) ==
    Only({IF ~Ok(st) THEN st
          ELSE LET run == Subprocess(st)
                   call == [output |-> output, py_filename |-> py_filename,
                            main |-> main, as_data |-> as_data,
                            exit |-> run.exit, out |-> run.out]
               IN  IF ~run.started THEN Raise(Tick(st), OSError)
                   ELSE IF CalledProcessError(run)
                   THEN Raise([Tick(st) EXCEPT !.fs.frozen = Append(@, call)],
                              UserException(<<"Unable to freeze ",
                                              py_filename, ".">>, run.out))
                   ELSE [Tick(st) EXCEPT !.fs.frozen = Append(@, call)] :
          st \in {st0}})

\* A faulty variant: a copy that fails is tried once more.
CopyFileRetried(st0, src_path, dst_path) ==
    Only({IF ~Ok(st) THEN st
          ELSE IF Hit(st, "fail") THEN Raise(Tick(Tick(st)), OSError)
          ELSE [Tick(st) EXCEPT !.fs.copied =
                    Append(@, [src |-> src_path, dst |-> dst_path])] :
          st \in {st0}})

\* shutil.copyfile
CopyFile(st0, src_path, dst_path) ==
    Only({IF ~Ok(st) THEN st
          ELSE IF Hit(st, "fail") THEN Raise(Tick(st), OSError)
          ELSE [Tick(st) EXCEPT !.fs.copied =
                    Append(@, [src |-> src_path, dst |-> dst_path])] :
          st \in {st0}})

\* Builder._create_file for a .qrc file, and the header written to it
CreateQrc(st0, resources_dir, qrc_file, resource) ==
    Only({IF ~Ok(st) THEN st
          ELSE IF Hit(st, "fail")
          THEN Raise(Tick(st),
                     UserException(<<"Unable to create file ",
                                     PathJoin2(resources_dir, qrc_file),
                                     ".">>, "OSError"))
          ELSE [Tick(st) EXCEPT !.fs.qrcs =
                    Append(@, [file |-> qrc_file, resource |-> resource,
                               entries |-> <<>>, closed |-> FALSE])] :
          st \in {st0}})

\* f.write('<file>...</file>') on the .qrc file being written
WriteEntry(st0, file_path) ==
    Only({IF ~Ok(st) THEN st
          ELSE [st EXCEPT !.fs.qrcs[Len(st.fs.qrcs)].entries =
                    Append(@, StrJoin(SEP, file_path))] :
          st \in {st0}})

\* the footer and f.close()
CloseQrc(st0) ==
    Only({IF ~Ok(st) THEN st
          ELSE [st EXCEPT !.fs.qrcs[Len(st.fs.qrcs)].closed = TRUE] :
          st \in {st0}})

(***************************************************************************)
(* Builder._write_package_contents.  dir_stack is a Python list shared     *)
(* with the caller: the value returned pairs the threaded record with the  *)
(* caller's list as the call leaves it.  A call that rebinds dir_stack to  *)
(* a new list works on that list and leaves the caller's alone.            *)
(***************************************************************************)

\* A faulty variant: only the names that end with '.py' are frozen.
DstFileOfPy(src_file) ==
    IF EndsWith(src_file, EXT_PY)
    THEN [dst_file |-> DropLast(src_file, 3) \o EXT_PYF, freeze_file |-> TRUE]
    ELSE [dst_file |-> src_file, freeze_file |-> FALSE]

\* The name a file is emitted under, and whether it is frozen.
DstFile(src_file) ==
    IF EndsWith(src_file, EXT_PY)
    THEN [dst_file |-> DropLast(src_file, 3) \o EXT_PYF, freeze_file |-> TRUE]
    ELSE IF EndsWith(src_file, EXT_PYW)
    THEN [dst_file |-> DropLast(src_file, 4) \o EXT_PYF, freeze_file |-> TRUE]
    ELSE [dst_file |-> src_file, freeze_file |-> FALSE]

\* A faulty variant: the base name is the prefix whatever it is.
PrefixAlways(dst_root_dir) == <<Basename(dst_root_dir)>>

\* prefix = os.path.basename(dst_root_dir), dropped when it is 'resources'
Prefix(dst_root_dir) ==
    IF Basename(dst_root_dir) # RESOURCES
    THEN <<Basename(dst_root_dir)>>
    ELSE <<>>

\* The else branch of the loop body: one file that is included.
WriteFile(st, content, dst_root_dir, src_root_dir, dir_tail, dst_dir, dir_stack) ==
    LET src_file == content.name
        src_path == PathJoin(<<src_root_dir, dir_tail, src_file>>)
        d == DstFile(src_file)
        dst_path == PathJoin2(dst_dir, d.dst_file)
        file_path == Prefix(dst_root_dir)
                        \o (IF dir_tail # EMPTY THEN dir_stack ELSE <<>>)
                        \o <<d.dst_file>>
    IN  IF d.freeze_file
        THEN Freeze(WriteEntry(st, file_path), dst_path, src_path,
                    FALSE, TRUE)
        ELSE CopyFile(WriteEntry(st, file_path), src_path, dst_path)

\* Faulty variants: the flag is honoured for files only, for directories
\* only, for neither.
SkippedIfExcludedFile(content) == ~content.included /\ ~content.isdir

SkippedIfExcludedDirectory(content) == ~content.included /\ content.isdir

SkippedNever(content) == FALSE

\* 'if not content.included: continue'
Skipped(content) == ~content.included

RECURSIVE WritePackageContents(_, _, _, _, _)
RECURSIVE WriteContentsLoop(_, _, _, _, _, _, _)

\* dir_stack.pop() after the nested call, which an exception skips
Pop(r0) ==
    Only({[st |-> r.st,
           dir_stack |-> IF Ok(r.st) THEN DropLast(r.dir_stack, 1)
                         ELSE r.dir_stack] :
          r \in {r0}})

\* 'for content in contents' from the i-th entry on; r0 holds the threaded
\* record and the list the loop appends to and pops from.
WriteContentsLoop(r0, contents, i, dst_root_dir, src_root_dir, dir_tail, dst_dir) ==
    Only({IF i > Len(contents) \/ ~Ok(r.st) THEN r
          ELSE WriteContentsLoop(
                IF Skipped(contents[i]) THEN r
                ELSE IF contents[i].isdir
                THEN Pop(WritePackageContents(r.st, contents[i].contents,
                            dst_root_dir, src_root_dir,
                            Append(r.dir_stack, contents[i].name)))
                ELSE [st |-> WriteFile(r.st, contents[i], dst_root_dir,
                                       src_root_dir, dir_tail, dst_dir,
                                       r.dir_stack),
                      dir_stack |-> r.dir_stack],
                contents, i + 1, dst_root_dir, src_root_dir, dir_tail,
                dst_dir) :
          r \in {r0}})

WritePackageContents(st, contents, dst_root_dir, src_root_dir, dir_stack) ==
    LET dir_tail == PathJoin(dir_stack)
        rebound == dir_tail = EMPTY \/ dir_tail = DOT
        dst_dir == IF dir_tail = EMPTY THEN dst_root_dir
                   ELSE PathJoin2(dst_root_dir, dir_tail)
    IN  Only({[st |-> r.st,
               dir_stack |-> IF rebound THEN dir_stack ELSE r.dir_stack] :
              r \in {WriteContentsLoop(
                        [st |-> IF dir_tail = EMPTY THEN st
                                ELSE CreateDirectory(st, dst_dir),
                         dir_stack |-> IF rebound THEN <<>> ELSE dir_stack],
                        contents, 1, dst_root_dir, src_root_dir, dir_tail,
                        dst_dir)}})

\* Builder._write_resource
WriteResource(st, resources_dir, resource, package, src) ==
    LET qrc_file == IF resource = EMPTY THEN PYQTDEPLOY_QRC
                    ELSE resource \o EXT_QRC
        dst_root_dir == IF resource = EMPTY THEN resources_dir
                        ELSE PathJoin2(resources_dir, resource)
        sp == PathSplit(src)
    IN  CloseQrc(
            WritePackageContents(
                CreateQrc(IF resource = EMPTY THEN st
                          ELSE CreateDirectory(st, dst_root_dir),
                          resources_dir, qrc_file, resource),
                package.contents, dst_root_dir, sp[1], <<sp[2]>>).st)

(***************************************************************************)
(* project.py: Project.  The record has exactly the attributes __init__    *)
(* sets; reading any other attribute raises AttributeError.                *)
(***************************************************************************)
NewProject(name) ==
    [modified |-> FALSE,
     name |-> name,
     application_name |-> EMPTY,
     application_is_pyqt5 |-> TRUE,
     application_package |-> QrcPackage(EMPTY, <<>>),
     application_script |-> EMPTY,
     application_entry_point |-> EMPTY,
     build_dir |-> <<"b", "u", "i", "l", "d">>,
     extension_modules |-> <<>>,
     pyqt_modules |-> <<>>,
     python_host_interpreter |-> EMPTY,
     python_source_dir |-> EMPTY,
     python_target_include_dir |-> EMPTY,
     python_target_library |-> EMPTY,
     python_target_stdlib_dir |-> EMPTY,
     qmake |-> EMPTY,
     packages |-> <<QrcPackage(EMPTY, <<>>)>>,
     stdlib_package |-> QrcPackage(EMPTY, <<>>),
     stdlib_extension_modules |-> <<>>,
     sys_path |-> EMPTY]

HasAttr(obj, attr) == attr \in DOMAIN obj

\* Project.absolute_path, for names without white space or $VARIABLES
AbsolutePath(p, filename) ==
    IF StartsWith(filename, SEP) THEN filename
    ELSE PathJoin2(Dirname(p.name), filename)

(***************************************************************************)
(* Builder._QtMetaData and the two module maps.                            *)
(***************************************************************************)
None == "None"

QtMetaData(qt, config) == [qt |-> qt, config |-> config]

Qt(tokens) == QtMetaData(tokens, None)

Config(tokens) == QtMetaData(None, tokens)

pyqt5_module_map ==
    "QAxContainer" :> Qt(<<"axcontainer">>) @@
    "QtBluetooth" :> Qt(<<"bluetooth">>) @@
    "QtCore" :> Qt(<<"-gui">>) @@
    "QtDBus" :> Qt(<<"dbus", "-gui">>) @@
    "QtDesigner" :> Qt(<<"designer">>) @@
    "QtHelp" :> Qt(<<"help">>) @@
    "QtMacExtras" :> Qt(<<"macextras">>) @@
    "QtMultimedia" :> Qt(<<"multimedia">>) @@
    "QtMultimediaWidgets" :> Qt(<<"multimediawidgets", "multimedia">>) @@
    "QtNetwork" :> Qt(<<"network", "-gui">>) @@
    "QtOpenGL" :> Qt(<<"opengl">>) @@
    "QtPositioning" :> Qt(<<"positioning">>) @@
    "QtPrintSupport" :> Qt(<<"printsupport">>) @@
    "QtQml" :> Qt(<<"qml">>) @@
    "QtQuick" :> Qt(<<"quick">>) @@
    "QtSensors" :> Qt(<<"sensors">>) @@
    "QtSerialPort" :> Qt(<<"serialport">>) @@
    "QtSql" :> Qt(<<"sql", "widgets">>) @@
    "QtSvg" :> Qt(<<"svg">>) @@
    "QtTest" :> Qt(<<"testlib", "widgets">>) @@
    "QtWebKit" :> Qt(<<"webkit", "network">>) @@
    "QtWebKitWidgets" :> Qt(<<"webkitwidgets">>) @@
    "QtWidgets" :> Qt(<<"widgets">>) @@
    "QtWinExtras" :> Qt(<<"winextras", "widgets">>) @@
    "QtX11Extras" :> Qt(<<"x11extras">>) @@
    "QtXmlPatterns" :> Qt(<<"xmlpatterns", "-gui", "network">>) @@
    "QtChart" :> Config(<<"qtcommercialchart">>) @@
    "QtDataVisualization" :> Qt(<<"datavisualization">>) @@
    "Qsci" :> Config(<<"qscintilla2">>)

pyqt4_module_map ==
    "QAxContainer" :> Config(<<"qaxcontainer">>) @@
    "QtCore" :> Qt(<<"-gui">>) @@
    "QtDBus" :> Qt(<<"dbus", "-gui">>) @@
    "QtDeclarative" :> Qt(<<"declarative", "network">>) @@
    "QtDesigner" :> Config(<<"designer">>) @@
    "QtHelp" :> Config(<<"help">>) @@
    "QtMultimedia" :> Qt(<<"multimedia">>) @@
    "QtNetwork" :> Qt(<<"network", "-gui">>) @@
    "QtOpenGL" :> Qt(<<"opengl">>) @@
    "QtScript" :> Qt(<<"script", "-gui">>) @@
    "QtScriptTools" :> Qt(<<"scripttools", "script">>) @@
    "QtSql" :> Qt(<<"sql">>) @@
    "QtSvg" :> Qt(<<"svg">>) @@
    "QtTest" :> Qt(<<"testlib">>) @@
    "QtWebKit" :> Qt(<<"webkit", "network">>) @@
    "QtXml" :> Qt(<<"xml", "-gui">>) @@
    "QtXmlPatterns" :> Qt(<<"xmlpatterns", "-gui", "network">>) @@
    "phonon" :> Qt(<<"phonon">>) @@
    "QtChart" :> Config(<<"qtcommercialchart">>) @@
    "Qsci" :> Config(<<"qscintilla2">>)

\* dict.get(key, default)
Get(map, key, default) == IF key \in DOMAIN map THEN map[key] ELSE default

(***************************************************************************)
(* Module names.  A module name is kept as the list of its dot-separated   *)
(* parts: 'a.b' is <<"a", "b">> and '' is <<"">>, so that x + '.' + y is   *)
(* concatenation and m.split('.') the list itself.                         *)
(***************************************************************************)
NoName == <<"">>

PyQtVersion(p) == IF p.application_is_pyqt5 THEN "PyQt5" ELSE "PyQt4"

PyQtDir(p) ==
    IF p.application_is_pyqt5 THEN <<"P", "y", "Q", "t", "5">>
    ELSE <<"P", "y", "Q", "t", "4">>

\* project.py: ExtensionModule
ExtensionModule(name, path) == [name |-> name, path |-> path]

(***************************************************************************)
(* A dict, as the sequence of its keys with their values in the order the  *)
(* keys were first set, the order dicts of Python 3.7 and later iterate in. *)
(* Earlier versions iterate in an order of their own: what is stated below *)
(* of the LIBS line counts its flags and does not rest on their order.      *)
(***************************************************************************)
Keys(dict) == [i \in DOMAIN dict |-> dict[i].key]

Values(dict) == [i \in DOMAIN dict |-> dict[i].value]

\* dict[key] = value
Put(dict, key, value) ==
    IF \E i \in DOMAIN dict : dict[i].key = key
    THEN [i \in DOMAIN dict |->
            IF dict[i].key = key THEN [key |-> key, value |-> value]
            ELSE dict[i]]
    ELSE Append(dict, [key |-> key, value |-> value])

\* The items of a list in order, each once ('if x not in xs: xs.append(x)').
RECURSIVE Unique(_)
Unique(xs) ==
    IF xs = <<>> THEN <<>>
    ELSE LET front == Unique(SubSeq(xs, 1, Len(xs) - 1))
             x == xs[Len(xs)]
         IN  IF \E i \in DOMAIN front : front[i] = x THEN front
             ELSE Append(front, x)

(***************************************************************************)
(* Builder._write_qmake: the computed parts.                               *)
(***************************************************************************)
ModuleMap(p) ==
    IF p.application_is_pyqt5 THEN pyqt5_module_map ELSE pyqt4_module_map

MetaData(p, pyqt_m) == Get(ModuleMap(p), pyqt_m, QtMetaData(None, None))

\* A faulty variant: the token is compared with 'gui'.
IsGuiToken(qt) == qt = "gui"

\* 'if qt == "-gui"'
IsGuiMarker(qt) == qt = "-gui"

\* A faulty variant: the item is appended whether or not it is there.
AppendAlways(xs, x) == Append(xs, x)

\* 'if x not in xs: xs.append(x)'
AppendNew(xs, x) ==
    IF \E i \in DOMAIN xs : xs[i] = x THEN xs ELSE Append(xs, x)

\* 'for qt in metadata.qt' from the i-th token on
RECURSIVE ScanQt(_, _, _)
ScanQt(qt, i, acc) ==
    IF i > Len(qt) THEN acc
    ELSE ScanQt(qt, i + 1,
                IF IsGuiMarker(qt[i]) THEN [acc EXCEPT !.needs_gui = FALSE]
                ELSE [acc EXCEPT !.qmake_qt = AppendNew(@, qt[i])])

\* 'for config in metadata.config' from the i-th token on
RECURSIVE ScanConfig(_, _, _)
ScanConfig(config, i, acc) ==
    IF i > Len(config) THEN acc
    ELSE ScanConfig(config, i + 1,
                    [acc EXCEPT !.qmake_config = AppendNew(@, config[i])])

\* 'for pyqt_m in project.pyqt_modules' from the i-th module on
RECURSIVE ScanPyQtModules(_, _, _)
ScanPyQtModules(p, i, acc) ==
    IF i > Len(p.pyqt_modules) THEN acc
    ELSE LET metadata == MetaData(p, p.pyqt_modules[i])
             a0 == [acc EXCEPT !.needs_gui = TRUE]
             a1 == IF metadata.qt # None THEN ScanQt(metadata.qt, 1, a0)
                   ELSE a0
             a2 == IF metadata.config # None
                   THEN ScanConfig(metadata.config, 1, a1)
                   ELSE a1
             a3 == IF a2.needs_gui THEN [a2 EXCEPT !.no_gui = FALSE] ELSE a2
         IN  ScanPyQtModules(p, i + 1, a3)

\* no_gui, qmake_qt and qmake_config after the loop
QtValues(p) ==
    ScanPyQtModules(p, 1, [no_gui |-> TRUE, needs_gui |-> TRUE,
                           qmake_qt |-> <<>>, qmake_config |-> <<>>])

\* The extensions dict after the loop over project.extension_modules.
RECURSIVE DeclaredExtensions(_)
DeclaredExtensions(extension_modules) ==
    IF extension_modules = <<>> THEN <<>>
    ELSE LET m == extension_modules[Len(extension_modules)]
             front == DeclaredExtensions(
                        SubSeq(extension_modules, 1,
                               Len(extension_modules) - 1))
         IN  IF m.name # NoName THEN Put(front, m.name, m.path) ELSE front

RECURSIVE PyQtExtensions(_, _, _, _)
PyQtExtensions(extensions, pyqt_modules, pyqt_version, pyqt_path) ==
    IF pyqt_modules = <<>> THEN extensions
    ELSE LET pyqt == pyqt_modules[Len(pyqt_modules)]
             front == PyQtExtensions(extensions,
                        SubSeq(pyqt_modules, 1, Len(pyqt_modules) - 1),
                        pyqt_version, pyqt_path)
         IN  IF pyqt # "uic"
             THEN Put(front, <<pyqt_version, pyqt>>, pyqt_path)
             ELSE front

SITE_PACKAGES_TAIL == <<"/", "s", "i", "t", "e", "-", "p", "a", "c", "k", "a", "g", "e", "s">>

\* A faulty variant: sip is not added.
ExtensionsWithoutSip(p) ==
    IF Len(p.pyqt_modules) > 0
    THEN PyQtExtensions(DeclaredExtensions(p.extension_modules),
                        p.pyqt_modules, PyQtVersion(p),
                        AbsolutePath(p, p.python_target_stdlib_dir)
                            \o SITE_PACKAGES_TAIL \o SEP \o PyQtDir(p))
    ELSE DeclaredExtensions(p.extension_modules)

\* The extensions dict: the declared modules, then the PyQt modules and sip.
Extensions(p) ==
    LET declared == DeclaredExtensions(p.extension_modules)
        sitepackages == AbsolutePath(p, p.python_target_stdlib_dir)
                            \o SITE_PACKAGES_TAIL
    IN  IF Len(p.pyqt_modules) > 0
        THEN Put(PyQtExtensions(declared, p.pyqt_modules, PyQtVersion(p),
                                sitepackages \o SEP \o PyQtDir(p)),
                 <<"sip">>, sitepackages)
        ELSE declared

\* A faulty variant: the flag names the parent of the directory.
ModDirFlagOfParent(md) == <<"-L", Dirname(md)>>

\* '-L' + md
ModDirFlag(md) == <<"-L", md>>

\* '-l' + m.split('.')[-1]
ModFlag(m) == <<"-l", m[Len(m)]>>

\* mod_dir_flags and mod_flags
ModDirFlags(extensions) ==
    LET mod_dirs == Unique(Values(extensions))
    IN  [i \in DOMAIN mod_dirs |-> ModDirFlag(mod_dirs[i])]

ModFlags(extensions) ==
    [i \in DOMAIN extensions |-> ModFlag(extensions[i].key)]

(***************************************************************************)
(* Builder.resources.  The value is the list returned, or the exception    *)
(* raised instead.                                                         *)
(***************************************************************************)

\* A faulty variant: any entry counts, included or not.
AnyNotEmpty(contents) == Len(contents) # 0

\* 'for content in contents: if content.included: ... break'
AnyIncluded(contents) == \E i \in DOMAIN contents : contents[i].included

Resources(p) ==
    LET app == IF AnyIncluded(p.application_package.contents)
               THEN <<EMPTY>> ELSE <<>>
        resources == Append(app, STDLIB)
    IN  IF Len(p.pyqt_modules) # 0
        THEN [err |-> NoError, value |-> Append(resources, SITE_PACKAGES)]
        ELSE IF ~HasAttr(p, "site_packages_package")
        THEN [err |-> AttributeError("site_packages_package"),
              value |-> <<>>]
        ELSE IF AnyIncluded(p.site_packages_package.contents)
        THEN [err |-> NoError, value |-> Append(resources, SITE_PACKAGES)]
        ELSE [err |-> NoError, value |-> resources]

(***************************************************************************)
(* Builder._write_qmake, with _write_main_c and _write_inittab.  The .pro  *)
(* file is kept as the list of its assignments, each a variable, an        *)
(* operator and the list of values.                                        *)
(***************************************************************************)
EXT_PRO == <<".", "p", "r", "o">>
MAIN_C == <<"m", "a", "i", "n", ".", "c">>
BOOTSTRAP_PY == <<"_", "_", "b", "o", "o", "t", "s", "t", "r", "a", "p", "_", "_", ".", "p", "y">>
FROZEN_BOOTSTRAP_H == <<"f", "r", "o", "z", "e", "n", "_", "b", "o", "o", "t", "s", "t", "r", "a", "p", ".", "h">>
FROZEN_MAIN_H == <<"f", "r", "o", "z", "e", "n", "_", "m", "a", "i", "n", ".", "h">>
LIB == <<"l", "i", "b">>
MOUNT == <<":", "/">>
PYQTDEPLOY == <<"p", "y", "q", "t", "d", "e", "p", "l", "o", "y">>

\* posixpath.splitext(p): <<root, ext>>
Splitext(p) ==
    LET sepIndex == AfterLastSep(p)
        dots == {i \in 1..Len(p) : p[i] = "."}
        dotIndex == IF dots = {} THEN 0
                    ELSE CHOOSE i \in dots : \A j \in dots : j <= i
    IN  IF dotIndex > sepIndex
           /\ \E k \in (sepIndex + 1)..(dotIndex - 1) : p[k] # "."
        THEN <<SubSeq(p, 1, dotIndex - 1), SubSeq(p, dotIndex, Len(p))>>
        ELSE <<p, <<>>>>

Line(var, op, values) == [var |-> var, op |-> op, values |-> values]

\* Builder._create_file raising
CreateFileFailed(st, build_dir, filename) ==
    Raise(st, UserException(<<"Unable to create file ",
                              PathJoin2(build_dir, filename), ".">>,
                            "OSError"))

\* f.write(...) on the .pro file
WritePro(st0, lines) ==
    Only({IF ~Ok(st) THEN st ELSE [st EXCEPT !.fs.pro.lines = @ \o lines] :
          st \in {st0}})

\* Builder._copy_lib_file into the build directory
CopyLibFile(st0, filename) ==
    Only({IF ~Ok(st) THEN st
          ELSE IF Hit(st, "fail")
          THEN Raise(Tick(st),
                     UserException(<<"Unable to copy file ", filename, ".">>,
                                   ""))
          ELSE [Tick(st) EXCEPT !.fs.libs = @ \cup {filename}] :
          st \in {st0}})

NULL == "NULL"

\* A faulty variant: the initializer is named after the first part of the
\* name.
InitTabOfFirstPart(extension_names, init_prefix) ==
    [i \in DOMAIN extension_names |->
        [name |-> extension_names[i],
         init |-> <<init_prefix, extension_names[i][1]>>]]
        \o <<[name |-> NULL, init |-> NULL]>>

\* Builder._write_inittab: the entries of the table, '{"%s", %s%s}' of the
\* name, the prefix and the last part of the name, and '{NULL, NULL}'
InitTab(extension_names, init_prefix) ==
    [i \in DOMAIN extension_names |->
        [name |-> extension_names[i],
         init |-> <<init_prefix,
                    extension_names[i][Len(extension_names[i])]>>]]
        \o <<[name |-> NULL, init |-> NULL]>>

\* Builder._write_main_c
WriteMainC(st0, build_dir, app_name, extension_names) ==
    Only({IF ~Ok(st) THEN st
          ELSE IF Hit(st, "fail")
          THEN CreateFileFailed(Tick(st), build_dir, MAIN_C)
          ELSE [Tick(st) EXCEPT !.fs.main_c =
                  IF Len(extension_names) > 0
                  THEN [exists |-> TRUE, app_name |-> app_name,
                        inittab |-> "extension_modules",
                        py3 |-> InitTab(extension_names, "PyInit_"),
                        py2 |-> InitTab(extension_names, "init")]
                  ELSE [exists |-> TRUE, app_name |-> app_name,
                        inittab |-> NULL, py3 |-> <<>>, py2 |-> <<>>]] :
          st \in {st0}})

\* The lines of the .pro file up to the platform specific part.
ProHead(p) ==
    LET q == QtValues(p)
        extensions == Extensions(p)
        lib == Splitext(Basename(p.python_target_library))[1]
    IN  <<Line("TEMPLATE", "=", <<"app">>),
          Line("CONFIG", "+=", <<"release", "warn_on">>)>>
        \o (IF q.no_gui THEN <<Line("QT", "-=", <<"gui">>)>> ELSE <<>>)
        \o (IF Len(q.qmake_qt) # 0
            THEN <<Line("QT", "+=", q.qmake_qt)>> ELSE <<>>)
        \o (IF Len(q.qmake_config) # 0
            THEN <<Line("CONFIG", "+=", q.qmake_config)>> ELSE <<>>)
        \o (IF Len(extensions) > 0
            THEN <<Line("LIBS", "+=",
                        ModDirFlags(extensions) \o ModFlags(extensions))>>
            ELSE <<>>)
        \o (IF p.python_target_include_dir # EMPTY
            THEN <<Line("INCLUDEPATH", "+=",
                        <<p.python_target_include_dir>>)>>
            ELSE <<>>)
        \o (IF p.python_target_library # EMPTY
            THEN <<Line("LIBS", "+=",
                        <<<<"-L", Dirname(p.python_target_library)>>,
                          <<"-l", IF StartsWith(lib, LIB)
                                  THEN SubSeq(lib, 4, Len(lib))
                                  ELSE lib>>>>)>>
            ELSE <<>>)

\* 'resources/{0}.qrc' for each resource
ResourceFiles(resources) ==
    [i \in DOMAIN resources |->
        RESOURCES \o SEP
            \o (IF resources[i] = EMPTY THEN PYQTDEPLOY ELSE resources[i])
            \o EXT_QRC]

\* f = self._create_file(build_dir, app_name + '.pro')
CreatePro(st0, build_dir, filename) ==
    Only({IF ~Ok(st) THEN st
          ELSE IF Hit(st, "fail")
          THEN CreateFileFailed(Tick(st), build_dir, filename)
          ELSE [Tick(st) EXCEPT !.fs.pro =
                    [exists |-> TRUE, name |-> filename, lines |-> <<>>,
                     closed |-> FALSE]] :
          st \in {st0}})

\* platforms_f.open(...), and the part of the .pro file read from it
CopyPlatforms(st0) ==
    Only({IF ~Ok(st) THEN st
          ELSE IF Hit(st, "fail")
          THEN Raise(Tick(st),
                     UserException(<<"Unable to open file ", "platforms.pro",
                                     ".">>, "QFile"))
          ELSE WritePro(Tick(st), <<Line("platforms.pro", "", <<>>)>>) :
          st \in {st0}})

\* resources = self.resources(), and the RESOURCES assignment
WriteResources(st0, r) ==
    Only({IF ~Ok(st) THEN st
          ELSE IF r.err # NoError THEN Raise(st, r.err)
          ELSE IF Len(r.value) # 0
          THEN WritePro(st, <<Line("RESOURCES", "=",
                                   ResourceFiles(r.value))>>)
          ELSE st :
          st \in {st0}})

\* ':/{0}' for each resource
SysPath(resources) == [i \in DOMAIN resources |-> MOUNT \o resources[i]]

\* bootstrap_f = self._create_file(build_dir, '__bootstrap__.py')
CreateBootstrap(st0, build_dir, resources) ==
    Only({IF ~Ok(st) THEN st
          ELSE IF Hit(st, "fail")
          THEN CreateFileFailed(Tick(st), build_dir, BOOTSTRAP_PY)
          ELSE [Tick(st) EXCEPT !.fs.bootstrap =
                    [exists |-> TRUE, sys_path |-> SysPath(resources),
                     path_hooks |-> <<"pyqtdeploy.qrcimporter">>]] :
          st \in {st0}})

\* version_f = self._create_file(build_dir, 'pyqtdeploy_version.h'), and
\* f.close()
\* A faulty variant: the version header is left out.
CreateVersionHSkipped(st0, build_dir) == st0

CreateVersionH(st0, build_dir) ==
    Only({IF ~Ok(st) THEN st
          ELSE IF Hit(st, "fail")
          THEN CreateFileFailed(Tick(st), build_dir,
                                <<"pyqtdeploy_version.h">>)
          ELSE [Tick(st) EXCEPT !.fs.version_h = TRUE,
                                !.fs.pro.closed = TRUE] :
          st \in {st0}})

WriteQmake(st0, p, build_dir) ==
    LET app_name == Splitext(Basename(p.application_script))[1]
        r == Resources(p)
        st1 == CreatePro(st0, build_dir, app_name \o EXT_PRO)
        st2 == WritePro(st1, ProHead(p))
        st3 == CopyPlatforms(st2)
        st4 == WriteResources(st3, r)
        st5 == WritePro(st4, <<Line("SOURCES", "=",
                    <<"main.c", "pyqtdeploy_main.c",
                      "pyqtdeploy_module.cpp">>)>>)
        st6 == WriteMainC(st5, build_dir, app_name, Keys(Extensions(p)))
        st7 == CopyLibFile(st6, "pyqtdeploy_main.c")
        st8 == CopyLibFile(st7, "pyqtdeploy_module.cpp")
        st9 == WritePro(st8, <<Line("HEADERS", "=",
                    <<"frozen_bootstrap.h", "frozen_main.h",
                      "pyqtdeploy_version.h">>)>>)
        st10 == CreateBootstrap(st9, build_dir, r.value)
        st11 == Freeze(st10, PathJoin2(build_dir, FROZEN_BOOTSTRAP_H),
                       PathJoin2(build_dir, BOOTSTRAP_PY), FALSE, FALSE)
        st12 == Freeze(st11, PathJoin2(build_dir, FROZEN_MAIN_H),
                       AbsolutePath(p, p.application_script), TRUE, FALSE)
    IN  CreateVersionH(st12, build_dir)

(***************************************************************************)
(* Builder.build, the body of 'for resource in self.resources()'.          *)
(***************************************************************************)
INIT_PY == <<"_", "_", "i", "n", "i", "t", "_", "_", ".", "p", "y">>

\* QrcPackage.copy
CopyPackage(package) ==
    [name |-> package.name, contents |-> package.contents,
     exclusions |-> package.exclusions]

UIC == <<"u", "i", "c">>
PORT_V2 == <<"p", "o", "r", "t", "_", "v", "2">>
PYCACHE == <<"_", "_", "p", "y", "c", "a", "c", "h", "e", "_", "_">>

\* What os.listdir, os.path.isfile and os.path.isdir tell of a name in a
\* directory: a file, a directory with its own names, or something else.
DiskFile(name) == [name |-> name, kind |-> "file", contents |-> <<>>]

DiskDirectory(name, contents) ==
    [name |-> name, kind |-> "dir", contents |-> contents]

DiskOther(name) == [name |-> name, kind |-> "other", contents |-> <<>>]

\* The uic directory of the PyQt package on disk.
UicDisk ==
    <<DiskFile(<<"u", ".", "p", "y">>),
      DiskDirectory(PORT_V2, <<DiskFile(<<"v", ".", "p", "y">>)>>),
      DiskDirectory(<<"w">>,
                    <<DiskFile(<<"q", ".", "p", "y">>),
                      DiskDirectory(PYCACHE, <<DiskFile(<<"c">>)>>),
                      DiskFile(<<"t">>)>>),
      DiskOther(<<"o">>)>>

RECURSIVE AddUicDir(_, _, _)
RECURSIVE AddUicContents(_, _, _)

\* Builder._add_uic_dir: 'for content in os.listdir(dirpath)' from the i-th
\* name on
AddUicContents(dir_pkg0, listing, i) ==
    Only({IF i > Len(listing) THEN dir_pkg
          ELSE AddUicContents(
                IF listing[i].name \in {PORT_V2, PYCACHE} THEN dir_pkg
                ELSE IF listing[i].kind = "file"
                THEN [dir_pkg EXCEPT !.contents =
                        Append(@, QrcFile(listing[i].name, TRUE))]
                ELSE IF listing[i].kind = "dir"
                THEN AddUicDir(dir_pkg, listing[i].name, listing[i].contents)
                ELSE dir_pkg,
                listing, i + 1) :
          dir_pkg \in {dir_pkg0}})

\* Builder._add_uic_dir; listing is what is on disk at dirpath
AddUicDir(package, dirname, listing) ==
    [package EXCEPT !.contents =
        Append(@, AddUicContents(QrcDirectory(dirname, TRUE, <<>>),
                                 listing, 1))]

\* build: pyqt_pkg_dir, with the uic directory when uic is requested
PyQtPkgDir(p) ==
    IF \E i \in DOMAIN p.pyqt_modules : p.pyqt_modules[i] = "uic"
    THEN AddUicDir(QrcDirectory(PyQtDir(p), TRUE, <<QrcFile(INIT_PY, TRUE)>>),
                   UIC, UicDisk)
    ELSE QrcDirectory(PyQtDir(p), TRUE, <<QrcFile(INIT_PY, TRUE)>>)

\* A faulty variant: the first package of the project stands for the
\* site-packages package and is used as it is, with no copy made.
BuildResourceUncopied(st0, p, resources_dir, resource) ==
    Only({IF ~Ok(st) THEN st
          ELSE IF resource = EMPTY
          THEN WriteResource(st, resources_dir, resource,
                             p.application_package,
                             AbsolutePath(p, p.application_package.name))
          ELSE IF resource = STDLIB
          THEN WriteResource(st, resources_dir, resource, p.stdlib_package,
                             PathJoin2(p.python_target_stdlib_dir, EMPTY))
          ELSE IF Len(p.packages) = 0
          THEN Raise(st, AttributeError("site_packages_package"))
          ELSE IF Len(p.pyqt_modules) # 0
          THEN WriteResource(
                    [st EXCEPT !.project.packages[1].contents =
                                    Append(@, PyQtPkgDir(p))],
                    resources_dir, resource,
                    [p.packages[1] EXCEPT
                        !.contents = Append(@, PyQtPkgDir(p))],
                    PathJoin(<<p.python_target_stdlib_dir, SITE_PACKAGES,
                               EMPTY>>))
          ELSE WriteResource(st, resources_dir, resource, p.packages[1],
                    PathJoin(<<p.python_target_stdlib_dir, SITE_PACKAGES,
                               EMPTY>>)) :
          st \in {st0}})

\* build, the body of the loop: the Project is read, and what is added for
\* PyQt is added to the copy of its site-packages package
BuildResource(st0, p, resources_dir, resource) ==
    Only({IF ~Ok(st) THEN st
          ELSE IF resource = EMPTY
          THEN WriteResource(st, resources_dir, resource,
                             p.application_package,
                             AbsolutePath(p, p.application_package.name))
          ELSE IF resource = STDLIB
          THEN WriteResource(st, resources_dir, resource, p.stdlib_package,
                             PathJoin2(p.python_target_stdlib_dir, EMPTY))
          ELSE IF ~HasAttr(p, "site_packages_package")
          THEN Raise(st, AttributeError("site_packages_package"))
          ELSE WriteResource(st, resources_dir, resource,
                    IF Len(p.pyqt_modules) # 0
                    THEN [CopyPackage(p.site_packages_package) EXCEPT
                            !.contents = Append(@, PyQtPkgDir(p))]
                    ELSE CopyPackage(p.site_packages_package),
                    PathJoin(<<p.python_target_stdlib_dir, SITE_PACKAGES,
                               EMPTY>>)) :
          st \in {st0}})

(***************************************************************************)
(* project.py: the project file.  The file is kept as the element tree     *)
(* ElementTree writes and parses back: an element has a tag, attributes    *)
(* and child elements in document order.  Attribute values are the strings *)
(* of the project, which hold no character XML would not carry.            *)
(***************************************************************************)
Element(tag, attrib, children) ==
    [tag |-> tag, attrib |-> attrib, children |-> children]

NoElement == Element(None, <<>>, <<>>)

\* element.find(tag): the first child with the tag, or None
Find(element, tag) ==
    IF \E i \in DOMAIN element.children : element.children[i].tag = tag
    THEN element.children[
            CHOOSE i \in DOMAIN element.children :
                /\ element.children[i].tag = tag
                /\ \A j \in 1..(i - 1) : element.children[j].tag # tag]
    ELSE NoElement

\* element.iterfind(tag): the children with the tag, in document order
IterFind(element, tag) ==
    LET HasTag(child) == child.tag = tag
    IN  SelectSeq(element.children, HasTag)

Digits == <<"0", "1", "2", "3", "4", "5", "6", "7", "8", "9">>

IsDigit(c) == \E d \in DOMAIN Digits : Digits[d] = c

DigitValue(c) == (CHOOSE d \in DOMAIN Digits : Digits[d] = c) - 1

\* str(n) for an int n >= 0
RECURSIVE StrOfNat(_)
StrOfNat(n) ==
    IF n < 10 THEN <<Digits[n + 1]>>
    ELSE StrOfNat(n \div 10) \o <<Digits[(n % 10) + 1]>>

\* str(n)
Str(n) == IF n < 0 THEN <<"-">> \o StrOfNat(0 - n) ELSE StrOfNat(n)

\* int(b) for a bool b
IntOfBool(b) == IF b THEN 1 ELSE 0

\* s.strip() for white space that is blanks
RECURSIVE Strip(_)
Strip(s) ==
    IF s # <<>> /\ s[1] = " " THEN Strip(Tail(s))
    ELSE IF s # <<>> /\ s[Len(s)] = " " THEN Strip(DropLast(s, 1))
    ELSE s

\* The value of a string of digits
RECURSIVE NatOfDigits(_)
NatOfDigits(s) ==
    IF s = <<>> THEN 0
    ELSE 10 * NatOfDigits(DropLast(s, 1)) + DigitValue(s[Len(s)])

\* int(value) inside 'try: ... except: value = None': ok tells whether int()
\* returned.  None is no string, and a string is an int when, stripped, it
\* is an optional sign and then digits.
IntOf(value) ==
    IF value = None THEN [ok |-> FALSE, value |-> 0]
    ELSE Only({
            Only({IF digits = <<>>
                        \/ \E i \in DOMAIN digits : ~IsDigit(digits[i])
                  THEN [ok |-> FALSE, value |-> 0]
                  ELSE [ok |-> TRUE,
                        value |-> IF s[1] = "-"
                                  THEN 0 - NatOfDigits(digits)
                                  ELSE NatOfDigits(digits)] :
                  digits \in {IF s # <<>> /\ s[1] \in {"+", "-"}
                              THEN Tail(s) ELSE s}}) :
            s \in {Strip(value)}})

\* Project.version
version == 3

\* Project._save_mfs_contents: the PackageContent elements added
RECURSIVE SaveMfsContents(_)
SaveMfsContents(contents) ==
    [i \in DOMAIN contents |->
        Element("PackageContent",
                [name |-> contents[i].name,
                 included |-> Str(IntOfBool(contents[i].included)),
                 isdirectory |-> Str(IntOfBool(contents[i].isdir))],
                IF contents[i].isdir
                THEN SaveMfsContents(contents[i].contents)
                ELSE <<>>)]

\* Project._save_package: the Package element added
SavePackage(package) ==
    Element("Package", [name |-> package.name],
            SaveMfsContents(package.contents)
                \o [i \in DOMAIN package.exclusions |->
                        Element("Exclude",
                                [name |-> package.exclusions[i]], <<>>)])

\* Project._save_project: the root element written
SaveProject(p) ==
    Element("Project", [version |-> Str(version)],
        <<Element("Application",
                  [entrypoint |-> p.application_entry_point,
                   ispyqt5 |-> Str(IntOfBool(p.application_is_pyqt5)),
                   name |-> p.application_name,
                   script |-> p.application_script,
                   syspath |-> p.sys_path],
                  <<SavePackage(p.application_package)>>
                    \o [i \in DOMAIN p.pyqt_modules |->
                            Element("PyQtModule",
                                    [name |-> p.pyqt_modules[i]], <<>>)]
                    \o <<Element("SitePackages", <<>>,
                                 [i \in DOMAIN p.packages |->
                                    SavePackage(p.packages[i])]),
                         Element("Stdlib", <<>>,
                                 <<SavePackage(p.stdlib_package)>>
                                   \o [i \in DOMAIN p.stdlib_extension_modules |->
                                        Element("StdlibExtensionModule",
                                                p.stdlib_extension_modules[i],
                                                <<>>)])>>
                    \o [i \in DOMAIN p.extension_modules |->
                            Element("ExtensionModule",
                                    [name |-> p.extension_modules[i].name,
                                     path |-> p.extension_modules[i].path],
                                    <<>>)]),
          Element("Python",
                  [hostinterpreter |-> p.python_host_interpreter,
                   sourcedir |-> p.python_source_dir,
                   targetincludedir |-> p.python_target_include_dir,
                   targetlibrary |-> p.python_target_library,
                   targetstdlibdir |-> p.python_target_stdlib_dir],
                  <<>>),
          Element("Others",
                  [builddir |-> p.build_dir, qmake |-> p.qmake], <<>>)>>)

\* project.py: StdlibExtensionModule
StdlibExtensionModule(name, defines, includepath, libs) ==
    [name |-> name, defines |-> defines, includepath |-> includepath,
     libs |-> libs]

\* Project._assert failing
Invalid(detail) == UserException("The project file is invalid.", detail)

\* What a function of load gives: the value it returns, or the exception it
\* raises instead.
Returned(value) == [err |-> NoError, value |-> value]

Raised(e) == [err |-> e, value |-> None]

\* Project._get_bool
GetBool(element, name, context) ==
    Only({IF ~value.ok
          THEN Raised(Invalid(<<"Missing or invalid boolean value of '",
                                context, ".", name, "'.">>))
          ELSE Returned(value.value # 0) :
          value \in {IntOf(Get(element.attrib, name, None))}})

RECURSIVE LoadMfsContents(_)
RECURSIVE LoadContentElements(_, _, _)

\* 'for content_element in mfs_element.iterfind(...)' from the i-th element
\* on; acc0 is the contents list so far, or the exception raised.
LoadContentElements(elements, i, acc0) ==
    Only({IF i > Len(elements) \/ acc.err # NoError THEN acc
          ELSE LoadContentElements(elements, i + 1,
                Only({
                    Only({IF isdir.err # NoError THEN isdir
                          ELSE IF name = EMPTY
                          THEN Raised(Invalid("Missing or empty 'Package.PackageContent.name' attribute."))
                          ELSE IF included.err # NoError THEN included
                          ELSE IF contents.err # NoError THEN contents
                          ELSE Returned(Append(acc.value,
                                IF isdir.value
                                THEN QrcDirectory(name, included.value,
                                                  contents.value)
                                ELSE QrcFile(name, included.value))) :
                          contents \in {IF isdir.err = NoError /\ isdir.value
                                        THEN LoadMfsContents(elements[i])
                                        ELSE Returned(<<>>)}}) :
                    isdir \in {GetBool(elements[i], "isdirectory",
                                       "Package.PackageContent")},
                    name \in {Get(elements[i].attrib, "name", EMPTY)},
                    included \in {GetBool(elements[i], "included",
                                          "Package.PackageContent")}})) :
          acc \in {acc0}})

\* Project._load_mfs_contents
LoadMfsContents(mfs_element) ==
    LoadContentElements(IterFind(mfs_element, "PackageContent"), 1,
                        Returned(<<>>))

\* 'for exclude_element in package_element.iterfind('Exclude')'
LoadExclusions(package_element) ==
    Only({IF \E i \in DOMAIN names : names[i] = ""
          THEN Raised(Invalid("Missing or empty 'Package.Exclude.name' attribute."))
          ELSE Returned(names) :
          names \in {[i \in DOMAIN IterFind(package_element, "Exclude") |->
                        Get(IterFind(package_element, "Exclude")[i].attrib,
                            "name", "")]}})

\* Project._load_package
LoadPackage(package_element) ==
    Only({IF name = None
          THEN Raised(Invalid("Missing 'Package.name' attribute."))
          ELSE IF contents.err # NoError THEN contents
          ELSE IF exclusions.err # NoError THEN exclusions
          ELSE Returned([name |-> name, contents |-> contents.value,
                         exclusions |-> exclusions.value]) :
          name \in {Get(package_element.attrib, "name", None)},
          contents \in {LoadMfsContents(package_element)},
          exclusions \in {LoadExclusions(package_element)}})

\* '[cls._load_package(package) for package in ...]' from the i-th element on
RECURSIVE LoadPackages(_, _, _)
LoadPackages(elements, i, acc0) ==
    Only({IF i > Len(elements) \/ acc.err # NoError THEN acc
          ELSE LoadPackages(elements, i + 1,
                Only({IF package.err # NoError THEN package
                      ELSE Returned(Append(acc.value, package.value)) :
                      package \in {LoadPackage(elements[i])}})) :
          acc \in {acc0}})

\* s.split('/') without the empty parts
RECURSIVE PathParts(_)
PathParts(s) ==
    IF s = <<>> THEN <<>>
    ELSE IF s[1] = "/" THEN PathParts(Tail(s))
    ELSE LET idx == {i \in 1..Len(s) : s[i] = "/"}
             n == IF idx = {} THEN Len(s) + 1
                  ELSE CHOOSE i \in idx : \A j \in idx : i <= j
         IN  <<SubSeq(s, 1, n - 1)>> \o PathParts(SubSeq(s, n, Len(s)))

\* len(os.path.commonprefix([a, b])) for lists a and b
RECURSIVE CommonParts(_, _)
CommonParts(a, b) ==
    IF a = <<>> \/ b = <<>> \/ a[1] # b[1] THEN 0
    ELSE 1 + CommonParts(Tail(a), Tail(b))

\* posixpath.relpath(path, start), for absolute paths without '.' and '..'
Relpath(path, start) ==
    Only({
        Only({IF rel_list = <<>> THEN DOT ELSE PathJoin(rel_list) :
              rel_list \in {[k \in 1..(Len(start_list) - i) |-> <<".", ".">>]
                                \o SubSeq(path_list, i + 1, Len(path_list)) :
                            i \in {CommonParts(start_list, path_list)}}}) :
        start_list \in {PathParts(start)}, path_list \in {PathParts(path)}})

\* Project.relative_path, for names without white space at their ends
RelativePath(p, filename) ==
    IF StartsWith(filename, SEP) /\ p.name # EMPTY
            /\ StartsWith(filename, Dirname(p.name))
    THEN Relpath(filename, Dirname(p.name))
    ELSE filename

\* A faulty variant: any version that is an int is taken.
LoadVersionOfAnyInt(root) ==
    Only({IF root.tag # "Project"
          THEN Raised(Invalid(<<"Unexpected root tag '", root.tag,
                                "', 'Project' expected.">>))
          ELSE IF Get(root.attrib, "version", None) = None
          THEN Raised(Invalid("Missing 'version' attribute."))
          ELSE IF ~v.ok THEN Raised(Invalid("Invalid 'version'."))
          ELSE Returned(v.value) :
          v \in {IntOf(Get(root.attrib, "version", None))}})

\* load: the root tag and the version number
LoadVersion(root) ==
    Only({IF root.tag # "Project"
          THEN Raised(Invalid(<<"Unexpected root tag '", root.tag,
                                "', 'Project' expected.">>))
          ELSE IF Get(root.attrib, "version", None) = None
          THEN Raised(Invalid("Missing 'version' attribute."))
          ELSE IF ~v.ok THEN Raised(Invalid("Invalid 'version'."))
          ELSE IF v.value > version
          THEN Raised(UserException(
                  <<"The project's format is version ", Str(v.value),
                    " but only version ", Str(version), " is supported.">>,
                  None))
          ELSE Returned(v.value) :
          v \in {IntOf(Get(root.attrib, "version", None))}})

\* load: the Python element
LoadPython(r0, root) ==
    Only({IF r.err # NoError THEN r
          ELSE IF python.tag = None
          THEN Raised(Invalid("Missing 'Python' tag."))
          ELSE Returned([r.value EXCEPT
                !.python_host_interpreter =
                    Get(python.attrib, "hostinterpreter", EMPTY),
                !.python_source_dir =
                    Get(python.attrib, "sourcedir", EMPTY),
                !.python_target_include_dir =
                    Get(python.attrib, "targetincludedir", EMPTY),
                !.python_target_library =
                    Get(python.attrib, "targetlibrary", EMPTY),
                !.python_target_stdlib_dir =
                    Get(python.attrib, "targetstdlibdir", EMPTY)]) :
          r \in {r0}, python \in {Find(root, "Python")}})

\* load: the attributes of the Application element and its Package
LoadApplication(r0, root) ==
    Only({IF r.err # NoError THEN r
          ELSE Only({
                IF application.tag = None
                THEN Raised(Invalid("Missing 'Application' tag."))
                ELSE IF ispyqt5.err # NoError THEN ispyqt5
                ELSE IF application_package.tag = None
                THEN Raised(Invalid("Missing 'Application.Package' tag."))
                ELSE IF package.err # NoError THEN package
                ELSE Returned([r.value EXCEPT
                        !.application_entry_point =
                            Get(application.attrib, "entrypoint", EMPTY),
                        !.application_is_pyqt5 = ispyqt5.value,
                        !.application_name =
                            Get(application.attrib, "name", EMPTY),
                        !.application_script =
                            Get(application.attrib, "script", EMPTY),
                        !.sys_path = Get(application.attrib, "syspath", EMPTY),
                        !.application_package = package.value]) :
                ispyqt5 \in {GetBool(application, "ispyqt5", "Application")},
                application_package \in {Find(application, "Package")},
                package \in {LoadPackage(Find(application, "Package"))}}) :
          r \in {r0}, application \in {Find(root, "Application")}})

\* load: 'for pyqt_m in application.iterfind('PyQtModule')'
LoadPyQtModules(r0, root) ==
    Only({IF r.err # NoError THEN r
          ELSE IF \E i \in DOMAIN names : names[i] = ""
          THEN Raised(Invalid("Missing or empty 'PyQtModule.name' attribute."))
          ELSE Returned([r.value EXCEPT !.pyqt_modules = @ \o names]) :
          r \in {r0},
          names \in {[i \in DOMAIN elements |->
                        Get(elements[i].attrib, "name", "")] :
                     elements \in {IterFind(Find(root, "Application"),
                                            "PyQtModule")}}})

\* A faulty variant: the list is kept as loaded.
FirstPackageKept(p, packages) == packages

\* load: the first package, when it has a blank name
FirstPackage(p, packages) ==
    IF Len(packages) # 0 /\ packages[1].name = EMPTY
    THEN IF Len(packages[1].contents) = 0 THEN Tail(packages)
         ELSE [packages EXCEPT ![1].name =
                    RelativePath(p, PathJoin2(p.python_target_stdlib_dir,
                                              SITE_PACKAGES))]
    ELSE packages

\* load: the SitePackages element
LoadSitePackages(r0, root) ==
    Only({IF r.err # NoError THEN r
          ELSE Only({
                IF site_packages.tag = None
                THEN Raised(Invalid("Missing 'Application.SitePackages' tag."))
                ELSE IF packages.err # NoError THEN packages
                ELSE Returned([r.value EXCEPT
                        !.packages = FirstPackage(r.value, packages.value)]) :
                packages \in {LoadPackages(IterFind(site_packages, "Package"),
                                           1, Returned(<<>>))}}) :
          r \in {r0},
          site_packages \in {Find(Find(root, "Application"),
                                  "SitePackages")}})

\* load: the Stdlib element
LoadStdlib(r0, root) ==
    Only({IF r.err # NoError THEN r
          ELSE Only({
                IF stdlib.tag = None
                THEN Raised(Invalid("Missing 'Application.Stdlib' tag."))
                ELSE IF stdlib_package.tag = None
                THEN Raised(Invalid("Missing 'Application.Stdlib.Package' tag."))
                ELSE IF package.err # NoError THEN package
                ELSE IF \E i \in DOMAIN elements :
                        Get(elements[i].attrib, "name", None) = None
                THEN Raised(Invalid("Missing 'Application.Stdlib.StdlibExtensionModule.name' attribute."))
                ELSE Returned([r.value EXCEPT
                        !.stdlib_package = package.value,
                        !.stdlib_extension_modules = @ \o
                            [i \in DOMAIN elements |->
                                StdlibExtensionModule(
                                    elements[i].attrib.name,
                                    Get(elements[i].attrib, "defines", EMPTY),
                                    Get(elements[i].attrib, "includepath",
                                        EMPTY),
                                    Get(elements[i].attrib, "libs", EMPTY))]]) :
                stdlib_package \in {Find(stdlib, "Package")},
                package \in {LoadPackage(Find(stdlib, "Package"))},
                elements \in {IterFind(stdlib, "StdlibExtensionModule")}}) :
          r \in {r0}, stdlib \in {Find(Find(root, "Application"), "Stdlib")}})

\* load: 'for extension_module_element in ...' from the i-th element on
RECURSIVE LoadExtensionModules(_, _, _)
LoadExtensionModules(r0, elements, i) ==
    Only({IF i > Len(elements) \/ r.err # NoError THEN r
          ELSE LoadExtensionModules(
                IF Get(elements[i].attrib, "name", None) = None
                THEN Raised(Invalid("Missing 'Application.ExtensionModule.name' attribute."))
                ELSE IF Get(elements[i].attrib, "path", None) = None
                THEN Raised(Invalid("Missing 'Application.ExtensionModule.path' attribute."))
                ELSE Returned([r.value EXCEPT !.extension_modules =
                        Append(@, ExtensionModule(elements[i].attrib.name,
                                                  elements[i].attrib.path))]),
                elements, i + 1) :
          r \in {r0}})

\* load: the Others element
LoadOthers(r0, root) ==
    Only({IF r.err # NoError THEN r
          ELSE IF others.tag = None THEN r
          ELSE Returned([r.value EXCEPT
                    !.build_dir = Get(others.attrib, "builddir", EMPTY),
                    !.qmake = Get(others.attrib, "qmake", EMPTY)]) :
          r \in {r0}, others \in {Find(root, "Others")}})

\* project = cls(); project.name = abs_filename
Created(r, abs_filename) ==
    IF r.err # NoError THEN r
    ELSE Returned([NewProject(EMPTY) EXCEPT !.name = abs_filename])

\* Project.load on a file that can be read: root is what tree.parse returns
Load(root, abs_filename) ==
    LoadOthers(
        LoadExtensionModules(
            LoadStdlib(
                LoadSitePackages(
                    LoadPyQtModules(
                        LoadApplication(
                            LoadPython(
                                Created(LoadVersion(root), abs_filename),
                                root),
                            root),
                        root),
                    root),
                root),
            IterFind(Find(root, "Application"), "ExtensionModule"), 1),
        root)

(***************************************************************************)
(* Inputs.                                                                 *)
(***************************************************************************)
PY_FILE == <<"m", ".", "p", "y">>
PYW_FILE == <<"m", ".", "p", "y", "w">>
DATA_FILE == <<"d">>
FileNames == {PY_FILE, DATA_FILE}
AllFileNames == {PY_FILE, PYW_FILE, DATA_FILE}
DirNames == {<<"k">>}
PackageNames == {EMPTY, DOT, <<"a">>}
ProjectName == <<"/", "p", "/", "x">>
StdlibDir == <<"/", "s">>
BuildDir == <<"/", "b">>
ResourcesDir == PathJoin2(BuildDir, RESOURCES)

RECURSIVE Contents(_, _)
RECURSIVE NodesOf(_, _)

\* The nodes of at most n nodes and at most d levels.
NodesOf(n, d) ==
    IF n = 0 \/ d = 0 THEN {}
    ELSE {QrcFile(nm, inc) : nm \in FileNames, inc \in BOOLEAN}
         \cup {QrcDirectory(nm, inc, c) :
                    nm \in DirNames, inc \in BOOLEAN,
                    c \in Contents(n - 1, d - 1)}

\* The contents lists of at most n nodes in all and at most d levels.
Contents(n, d) ==
    IF n = 0 \/ d = 0 THEN {<<>>}
    ELSE {<<>>} \cup
         UNION {{<<nd>> \o rest : nd \in NodesOf(k, d) \ NodesOf(k - 1, d),
                                  rest \in Contents(n - k, d)} : k \in 1..n}

\* The contents lists of at most n files, of every kind of name.
RECURSIVE FlatContents(_)
FlatContents(n) ==
    IF n = 0 THEN {<<>>}
    ELSE FlatContents(n - 1) \cup
         {Append(c, QrcFile(nm, inc)) :
            c \in FlatContents(n - 1), nm \in AllFileNames, inc \in BOOLEAN}

Trees == Contents(MaxNodes, MaxDepth) \cup FlatContents(MaxNodes)

Faults(calls) == [at : 0..calls, how : {"fail", "nostart", "warn"}]

\* A fault that names a call never made, or a way that call cannot go wrong,
\* leaves the run the fault-free run: it is taken once, as NoFault.
Effective(st) ==
    \/ st.fault = NoFault
    \/ /\ st.fault.at >= 1 /\ st.fault.at <= st.n
       /\ \/ ~Ok(st)
          \/ \E i \in DOMAIN st.fs.frozen : st.fs.frozen[i].out # ""

(***************************************************************************)
(* SpecWalk: _write_resource applied, as build applies it, to the          *)
(* application package or to the stdlib package of a project.              *)
(***************************************************************************)
InitWalk ==
    /\ \E c \in Trees :
        \/ \E nm \in PackageNames :
            /\ project = [NewProject(ProjectName) EXCEPT
                            !.application_package = QrcPackage(nm, c),
                            !.python_target_stdlib_dir = StdlibDir]
            /\ todo = <<EMPTY>>
        \/ /\ project = [NewProject(ProjectName) EXCEPT
                            !.stdlib_package = QrcPackage(EMPTY, c),
                            !.python_target_stdlib_dir = StdlibDir]
           /\ todo = <<STDLIB>>
    /\ pc = "walk"
    /\ error = NoError
    /\ fs = EmptyFs
    /\ result = NoFault

WalkResource ==
    /\ pc = "walk"
    /\ \E fault \in Faults(MaxNodes + 3) :
        \E st \in {BuildResource(Start(fs, fault), project, ResourcesDir,
                                 todo[1])} :
            /\ Effective(st)
            /\ fs' = st.fs
            /\ error' = st.err
            /\ result' = [fault |-> fault, resource |-> todo[1]]
            /\ project' = st.project
    /\ pc' = "walked"
    /\ todo' = Tail(todo)

NextWalk == WalkResource

SpecWalk == InitWalk /\ [][NextWalk]_vars

(***************************************************************************)
(* Spec: Builder.build, one action for each statement of its body and one  *)
(* for each turn of its loop.  result keeps the faults the outside world   *)
(* was given, one for each action taken.                                   *)
(***************************************************************************)
MaxTop == 2

RECURSIVE SeqsUpTo(_, _)
SeqsUpTo(S, n) ==
    IF n = 0 THEN {<<>>}
    ELSE SeqsUpTo(S, n - 1) \cup
         {Append(q, x) : q \in SeqsUpTo(S, n - 1), x \in S}

\* Top-level entries: files, and directories holding one included file.
TopEntries ==
    {QrcFile(PY_FILE, inc) : inc \in BOOLEAN}
    \cup {QrcDirectory(<<"k">>, inc, <<QrcFile(DATA_FILE, TRUE)>>) :
            inc \in BOOLEAN}

TopContents == SeqsUpTo(TopEntries, MaxTop)

\* Included directories below which no file is emitted.
LeaflessEntries ==
    {QrcDirectory(<<"k">>, TRUE, <<>>),
     QrcDirectory(<<"k">>, TRUE, <<QrcFile(DATA_FILE, FALSE)>>)}

\* Contents whose only included top-level entries are such directories.
LeaflessContents ==
    {<<e>> : e \in LeaflessEntries}
    \cup {<<QrcFile(PY_FILE, FALSE), e>> : e \in LeaflessEntries}

SCRIPT == <<"a", "/", "m", ".", "p", "y">>

Init ==
    /\ \E app \in TopContents \cup LeaflessContents,
          std \in {<<>>, <<QrcFile(PY_FILE, TRUE), QrcFile(DATA_FILE, TRUE)>>},
          pyqt \in {<<>>, <<"QtCore">>, <<"QtWidgets", "uic">>} :
        \E pkgs \in IF app \in LeaflessContents
                     THEN {<<QrcPackage(EMPTY, <<>>)>>,
                           <<QrcPackage(<<"/", "q">>, app)>>}
                     ELSE {<<QrcPackage(EMPTY, <<>>)>>} :
        project = [NewProject(ProjectName) EXCEPT
                        !.application_package = QrcPackage(<<"a">>, app),
                        !.packages = pkgs,
                        !.application_script = SCRIPT,
                        !.stdlib_package = QrcPackage(EMPTY, std),
                        !.python_target_stdlib_dir = StdlibDir,
                        !.pyqt_modules = pyqt]
    /\ pc = "create_build_dir"
    /\ error = NoError
    /\ \E old \in BOOLEAN : fs = [EmptyFs EXCEPT !.tmp_old = old]
    /\ todo = <<>>
    /\ result = <<>>

\* What every action of build does with the record its statement leaves.
Step(st0, next) ==
    \E st \in {st0} :
        /\ Effective(st)
        /\ fs' = st.fs
        /\ error' = st.err
        /\ result' = Append(result, st.fault)
        /\ pc' = IF Ok(st) THEN next ELSE "raised"
        /\ project' = st.project

\* self._create_directory(build_dir)
CreateBuildDir ==
    /\ pc = "create_build_dir"
    /\ \E fault \in Faults(1) :
        Step(CreateDirectory(Start(fs, fault), BuildDir), "copy_freeze")
    /\ UNCHANGED todo

\* QFile.remove(d_filename) for the file in the temporary directory
RemoveTemp(st, filename) ==
    IF st.fs.tmp_freeze \/ st.fs.tmp_old
    THEN [st EXCEPT !.fs.tmp_freeze = FALSE, !.fs.tmp_old = FALSE,
                    !.fs.removed = Append(@, filename)]
    ELSE st

\* A faulty variant: the destination is not removed first, and QFile.copy
\* does not overwrite a file.
CopyLibFileToTempKeepingOld(st0, filename) ==
    Only({IF ~Ok(st) THEN st
          ELSE IF Hit(st, "fail") \/ st.fs.tmp_freeze \/ st.fs.tmp_old
          THEN Raise(Tick(st),
                     UserException(<<"Unable to copy file ", filename, ".">>,
                                   ""))
          ELSE [Tick(st) EXCEPT !.fs.tmp_freeze = TRUE] :
          st \in {st0}})

\* Builder._copy_lib_file to the temporary directory: any old copy is
\* removed first
CopyLibFileToTemp(st0, filename) ==
    Only({IF ~Ok(st) THEN st
          ELSE IF Hit(st, "fail")
          THEN Raise(Tick(RemoveTemp(st, filename)),
                     UserException(<<"Unable to copy file ", filename, ".">>,
                                   ""))
          ELSE [Tick(RemoveTemp(st, filename)) EXCEPT
                    !.fs.tmp_freeze = TRUE] :
          st \in {st0}})

\* freeze = self._copy_lib_file('freeze.py')
CopyFreeze ==
    /\ pc = "copy_freeze"
    /\ \E fault \in Faults(1) :
        Step(CopyLibFileToTemp(Start(fs, fault), "freeze.py"), "write_qmake")
    /\ UNCHANGED todo

\* self._write_qmake(build_dir, freeze)
WriteQmakeFile ==
    /\ pc = "write_qmake"
    /\ \E fault \in Faults(9) :
        Step(WriteQmake(Start(fs, fault), project, BuildDir),
             "create_resources_dir")
    /\ UNCHANGED todo

\* The iterator of 'for resource in self.resources()'
LoopOver(st0, r) ==
    Only({IF Ok(st) /\ r.err # NoError THEN Raise(st, r.err) ELSE st :
          st \in {st0}})

\* self._create_directory(resources_dir), and the loop's self.resources()
CreateResourcesDir ==
    /\ pc = "create_resources_dir"
    /\ \E fault \in Faults(1) :
        \E st \in {CreateDirectory(Start(fs, fault), ResourcesDir)} :
            /\ Step(LoopOver(st, Resources(project)), "resources")
            /\ todo' = IF Ok(st) THEN Resources(project).value ELSE todo

\* os.remove(freeze)
RemoveFreeze(st) ==
    [st EXCEPT !.fs.tmp_freeze = FALSE,
               !.fs.removed = Append(@, "freeze.py")]

\* One turn of 'for resource in self.resources()', or, after the last turn,
\* os.remove(freeze).
NextResource ==
    /\ pc = "resources"
    /\ IF todo = <<>>
       THEN /\ Step(RemoveFreeze(Start(fs, NoFault)), "done")
            /\ UNCHANGED todo
       ELSE /\ \E fault \in Faults(MaxNodes + 3) :
                Step(BuildResource(Start(fs, fault), project, ResourcesDir,
                                   todo[1]), "resources")
            /\ todo' = Tail(todo)

Next ==
    \/ CreateBuildDir
    \/ CopyFreeze
    \/ WriteQmakeFile
    \/ CreateResourcesDir
    \/ NextResource

Spec == Init /\ [][Next]_vars

(***************************************************************************)
(* SpecQmake: _write_qmake applied to a project.                           *)
(***************************************************************************)
PyQtNames == {"QtCore", "QtNetwork", "QtWidgets", "QtChart", "QtGui",
              "QtXml", "QtDesigner", "QtSql", "uic"}

PyQtLists == SeqsUpTo(PyQtNames, MaxPyQt)

ExtNames ==
    {NoName, <<"foo">>, <<"bar">>, <<"p", "foo">>, <<"sip">>, <<"p", "sip">>}

ExtPaths == {<<"/", "x", "/", "l", "i", "b", "f", "o", "o">>, <<"/", "y">>}

ExtLists ==
    SeqsUpTo({ExtensionModule(n, path) : n \in ExtNames, path \in ExtPaths},
             MaxExt)

InitQmake ==
    /\ \/ \E pyqt \in PyQtLists, is5 \in BOOLEAN :
            project = [NewProject(ProjectName) EXCEPT
                            !.application_script = SCRIPT,
                            !.python_target_stdlib_dir = StdlibDir,
                            !.application_is_pyqt5 = is5,
                            !.pyqt_modules = pyqt]
       \/ \E ext \in ExtLists,
             pyqt \in {<<>>, <<"QtCore">>, <<"uic">>} :
            project = [NewProject(ProjectName) EXCEPT
                            !.application_script = SCRIPT,
                            !.python_target_stdlib_dir = StdlibDir,
                            !.extension_modules = ext,
                            !.pyqt_modules = pyqt]
    /\ pc = "write_qmake"
    /\ error = NoError
    /\ fs = EmptyFs
    /\ todo = <<>>
    /\ result = <<>>

NextQmake == WriteQmakeFile

SpecQmake == InitQmake /\ [][NextQmake]_vars

(***************************************************************************)
(* Package trees, as the claims speak of them: a node is named by its      *)
(* position, the sequence of indexes leading to it from the package's      *)
(* contents list.                                                          *)
(***************************************************************************)
RECURSIVE Positions(_)
Positions(contents) ==
    UNION {{<<i>>} \cup {<<i>> \o q : q \in Positions(contents[i].contents)} :
           i \in DOMAIN contents}

RECURSIVE NodeAt(_, _)
NodeAt(contents, pos) ==
    IF Len(pos) = 1 THEN contents[pos[1]]
    ELSE NodeAt(contents[pos[1]].contents, Tail(pos))

\* The contents list without its i-th entry.
Without(contents, i) ==
    SubSeq(contents, 1, i - 1) \o SubSeq(contents, i + 1, Len(contents))

\* The tree without the node at pos (and what is below it).
RECURSIVE RemoveAt(_, _)
RemoveAt(contents, pos) ==
    IF Len(pos) = 1 THEN Without(contents, pos[1])
    ELSE [contents EXCEPT ![pos[1]].contents = RemoveAt(@, Tail(pos))]

Ancestors(pos) == {SubSeq(pos, 1, k) : k \in 1..(Len(pos) - 1)}

\* The leaves the claims call emitted: included files below included
\* directories only.
EmittedLeaves(contents) ==
    {pos \in Positions(contents) :
        /\ ~NodeAt(contents, pos).isdir
        /\ NodeAt(contents, pos).included
        /\ \A a \in Ancestors(pos) : NodeAt(contents, a).included}

\* Depth-first order, each contents list in insertion order.
Before(p, q) ==
    \E i \in 1..Len(q) :
        /\ i <= Len(p) + 1
        /\ SubSeq(p, 1, i - 1) = SubSeq(q, 1, i - 1)
        /\ (i = Len(p) + 1 \/ p[i] < q[i])

RECURSIVE DepthFirst(_)
DepthFirst(S) ==
    IF S = {} THEN <<>>
    ELSE LET first == CHOOSE m \in S : \A o \in S \ {m} : Before(m, o)
         IN  <<first>> \o DepthFirst(S \ {first})

(***************************************************************************)
(* What SpecWalk walked, and the same walk of another tree.                *)
(***************************************************************************)
Walked == pc = "walked"

WalkedTree ==
    IF result.resource = EMPTY THEN project.application_package.contents
    ELSE project.stdlib_package.contents

WithTree(contents) ==
    IF result.resource = EMPTY
    THEN [project EXCEPT !.application_package.contents = contents]
    ELSE [project EXCEPT !.stdlib_package.contents = contents]

WalkOf(contents) ==
    BuildResource(Start(EmptyFs, result.fault), WithTree(contents),
                  ResourcesDir, result.resource)

Manifest == fs.qrcs[1].entries

\* C1: an excluded directory contributes no manifest entry and triggers no
\* freeze and no copy, whatever is below it: the walk writes, freezes and
\* copies exactly what it does for the tree without that directory.
C1_ExcludedDirectoryPruned ==
    Walked =>
        \A pos \in Positions(WalkedTree) :
            LET node == NodeAt(WalkedTree, pos)
                other == WalkOf(RemoveAt(WalkedTree, pos))
            IN  (node.isdir /\ ~node.included) =>
                    /\ other.fs.qrcs = fs.qrcs
                    /\ other.fs.frozen = fs.frozen
                    /\ other.fs.copied = fs.copied
                    /\ other.err = error

\* An excluded directory holding an included file, beside an emitted file.
C1_Witness ==
    /\ Walked /\ error = NoError
    /\ Len(Manifest) = 1
    /\ \E pos \in Positions(WalkedTree) :
        /\ NodeAt(WalkedTree, pos).isdir
        /\ ~NodeAt(WalkedTree, pos).included
        /\ \E q \in Positions(WalkedTree) :
            /\ pos \in Ancestors(q)
            /\ NodeAt(WalkedTree, q).included
            /\ ~NodeAt(WalkedTree, q).isdir

\* C2: an excluded file contributes no manifest entry and the entries of all
\* other nodes are those, in that order, of the tree without the file.
C2_ExcludedFileSkipped ==
    (Walked /\ error = NoError) =>
        \A pos \in Positions(WalkedTree) :
            LET node == NodeAt(WalkedTree, pos)
                other == WalkOf(RemoveAt(WalkedTree, pos))
            IN  (~node.isdir /\ ~node.included) =>
                    other.fs.qrcs[1].entries = Manifest

\* An excluded file followed by a sibling directory whose file is emitted.
C2_Witness ==
    /\ Walked /\ error = NoError
    /\ Len(WalkedTree) = 2
    /\ Len(Manifest) = 1
    /\ ~WalkedTree[1].isdir /\ ~WalkedTree[1].included
    /\ WalkedTree[2].isdir /\ WalkedTree[2].included
    /\ Len(WalkedTree[2].contents) = 1
    /\ WalkedTree[2].contents[1].included

\* The entry the leaf at pos is listed under.
EntryOf(pos) ==
    LET name == IF result.resource = EMPTY
                THEN project.application_package.name
                ELSE EMPTY
    IN  StrJoin(SEP,
            (IF result.resource = EMPTY THEN <<>> ELSE <<result.resource>>)
            \o (IF name \in {EMPTY, DOT} THEN <<>> ELSE <<name>>)
            \o [k \in 1..(Len(pos) - 1) |->
                    NodeAt(WalkedTree, SubSeq(pos, 1, k)).name]
            \o <<DstFile(NodeAt(WalkedTree, pos).name).dst_file>>)

\* C3: the manifest of a resource group that was written lists the emitted
\* leaves depth first, each once, and nothing else.
C3_ManifestIsDepthFirstListing ==
    (Walked /\ error = NoError) =>
        LET leaves == DepthFirst(EmittedLeaves(WalkedTree))
        IN  /\ fs.qrcs[1].closed
            /\ Manifest = [i \in DOMAIN leaves |-> EntryOf(leaves[i])]

\* A leaf inside a directory is followed by a leaf beside the directory.
C3_Witness ==
    /\ Walked /\ error = NoError
    /\ Len(Manifest) = 2
    /\ Len(WalkedTree) = 2
    /\ WalkedTree[1].isdir
    /\ ~WalkedTree[2].isdir
    /\ Len(WalkedTree[1].contents) = 1

(***************************************************************************)
(* SpecRes: resources() called on a project.                               *)
(***************************************************************************)
PackageLists ==
    {<<>>, <<QrcPackage(EMPTY, <<>>)>>}
    \cup {<<QrcPackage(<<"/", "q">>, <<e>>)>> : e \in TopEntries}

InitRes ==
    /\ \E app \in TopContents, pkgs \in PackageLists,
          pyqt \in SeqsUpTo({"QtCore", "uic"}, MaxPyQt) :
        project = [NewProject(ProjectName) EXCEPT
                        !.application_package = QrcPackage(<<"a">>, app),
                        !.packages = pkgs,
                        !.pyqt_modules = pyqt]
    /\ pc = "call"
    /\ error = NoError
    /\ fs = EmptyFs
    /\ todo = <<>>
    /\ result = <<>>

CallResources ==
    /\ pc = "call"
    /\ pc' = "called"
    /\ result' = Resources(project).value
    /\ error' = Resources(project).err
    /\ UNCHANGED <<project, fs, todo>>

NextRes == CallResources

SpecRes == InitRes /\ [][NextRes]_vars

Called == pc = "called"

Listed(resource) == \E i \in DOMAIN result : result[i] = resource

\* C4: the list resources() returns contains 'stdlib', and does not contain
\* the application identifier '' when no entry of the application package is
\* included.
C4_StdlibAlwaysAppOnlyIfIncluded ==
    (Called /\ error = NoError) =>
        /\ Listed(STDLIB)
        /\ (\A i \in DOMAIN project.application_package.contents :
                ~project.application_package.contents[i].included)
            => ~Listed(EMPTY)

\* resources() returned for an application package that has entries, none
\* of them included.
C4_Witness ==
    /\ Called /\ error = NoError
    /\ Len(project.application_package.contents) = 2
    /\ \A i \in DOMAIN project.application_package.contents :
            ~project.application_package.contents[i].included
    /\ Listed(STDLIB) /\ ~Listed(EMPTY)

\* C5: resources() returns a list, and 'site-packages' is in it exactly when
\* a PyQt module is requested or a package of the project has an included
\* entry.
C5_SitePackagesIffPyQtOrIncluded ==
    Called =>
        /\ error = NoError
        /\ Listed(SITE_PACKAGES) <=>
                \/ Len(project.pyqt_modules) # 0
                \/ \E k \in DOMAIN project.packages :
                        AnyIncluded(project.packages[k].contents)


(***************************************************************************)
(* The .pro file _write_qmake wrote.                                       *)
(***************************************************************************)
ProWritten == fs.pro.exists

HasProLine(line) == \E i \in DOMAIN fs.pro.lines : fs.pro.lines[i] = line

\* pyqt_m has an entry in the table application_is_pyqt5 selects, and the
\* entry's qt list holds '-gui'.
OptsOut(pyqt_m) ==
    LET table == IF project.application_is_pyqt5 THEN pyqt5_module_map
                 ELSE pyqt4_module_map
    IN  /\ pyqt_m \in DOMAIN table
        /\ table[pyqt_m].qt # None
        /\ \E i \in DOMAIN table[pyqt_m].qt : table[pyqt_m].qt[i] = "-gui"

Requested == {project.pyqt_modules[i] : i \in DOMAIN project.pyqt_modules}

\* C7: the .pro file holds the line 'QT -= gui' exactly when every requested
\* PyQt module has '-gui' in the qt list of its entry in the selected table;
\* a requested module without it, or without an entry, keeps the line out.
C7_GuiRemovedIffAllOptOut ==
    ProWritten =>
        (HasProLine(Line("QT", "-=", <<"gui">>))
            <=> \A pyqt_m \in Requested : OptsOut(pyqt_m))

\* Two modules are requested, the first opts out, the second has no entry
\* in the selected table, and the line is not written.
C7_Witness ==
    /\ ProWritten
    /\ Len(project.pyqt_modules) = 2
    /\ OptsOut(project.pyqt_modules[1])
    /\ project.pyqt_modules[2] \notin DOMAIN ModuleMap(project)
    /\ ~HasProLine(Line("QT", "-=", <<"gui">>))

\* The values of the LIBS assignment written for the extension modules.
ExtensionLibs ==
    IF \E i \in DOMAIN fs.pro.lines : fs.pro.lines[i].var = "LIBS"
    THEN fs.pro.lines[CHOOSE i \in DOMAIN fs.pro.lines :
                            fs.pro.lines[i].var = "LIBS"].values
    ELSE <<>>

\* How many -L flags on the line name dir.
DirFlags(dir) ==
    Cardinality({i \in DOMAIN ExtensionLibs :
                    ExtensionLibs[i][1] = "-L" /\ ExtensionLibs[i][2] = dir})

\* How many -l flags on the line name lib.
LinkFlags(lib) ==
    Cardinality({i \in DOMAIN ExtensionLibs :
                    ExtensionLibs[i][1] = "-l" /\ ExtensionLibs[i][2] = lib})

\* The characters of the names that are compared with parts of paths.
Spelling ==
    [foo |-> <<"f", "o", "o">>, bar |-> <<"b", "a", "r">>,
     sip |-> <<"s", "i", "p">>, p |-> <<"p">>]

Spelled(part) ==
    IF part \in DOMAIN Spelling THEN Spelling[part] ELSE <<part>>

\* How many -l flags on the line name the library spelled lib.
LinkFlagsSpelled(lib) ==
    Cardinality({i \in DOMAIN ExtensionLibs :
                    /\ ExtensionLibs[i][1] = "-l"
                    /\ Spelled(ExtensionLibs[i][2]) = lib})

\* The declared extension modules that have a name.
Declared ==
    {i \in DOMAIN project.extension_modules :
        project.extension_modules[i].name # NoName}

\* 'libfoo' names the library foo.
LibraryName(path) ==
    IF StartsWith(Basename(path), LIB)
    THEN SubSeq(Basename(path), 4, Len(Basename(path)))
    ELSE Basename(path)

\* C8, as the specification states it: for each declared extension module
\* with a name the LIBS line has exactly one -l flag made from the base name
\* of the module's path and exactly one -L flag for the directory holding
\* that path.
C8_LibsFromLibraryPath ==
    ProWritten =>
        \A i \in Declared :
            /\ LinkFlagsSpelled(
                    LibraryName(project.extension_modules[i].path)) = 1
            /\ DirFlags(Dirname(project.extension_modules[i].path)) = 1

\* The names linked: the declared ones, and with any PyQt module requested
\* the PyQt modules other than uic, and sip.
LinkedNames ==
    {project.extension_modules[i].name : i \in Declared}
        \cup (IF project.pyqt_modules = <<>> THEN {}
              ELSE {<<"sip">>}
                   \cup {<<PyQtVersion(project), pyqt_m>> :
                            pyqt_m \in Requested \ {"uic"}})

\* The path kept for a declared name: that of the last declaration of the
\* name, but for sip site-packages when a PyQt module is requested.
PathOf(name) ==
    IF name = <<"sip">> /\ project.pyqt_modules # <<>>
    THEN AbsolutePath(project, project.python_target_stdlib_dir)
            \o SITE_PACKAGES_TAIL
    ELSE project.extension_modules[
            CHOOSE i \in Declared :
                /\ project.extension_modules[i].name = name
                /\ \A j \in Declared :
                    project.extension_modules[j].name = name => j <= i].path

\* C8, as the code has it: for each declared extension module with a name
\* the LIBS line has the flag -l with the last dotted part of the module's
\* name, once for each linked name ending in that part, and exactly one -L
\* flag with the path kept for the name itself, not its parent directory.
C8_LibsFromModuleNameAndPath ==
    ProWritten =>
        \A i \in Declared :
            LET name == project.extension_modules[i].name
            IN  /\ LinkFlags(name[Len(name)])
                    = Cardinality({n \in LinkedNames :
                                        n[Len(n)] = name[Len(name)]})
                /\ DirFlags(PathOf(name)) = 1

\* foo and bar are declared at /x/libfoo: one -L/x/libfoo, -lfoo and -lbar.
C8_Witness ==
    /\ ProWritten
    /\ project.pyqt_modules = <<>>
    /\ Len(project.extension_modules) = 2
    /\ project.extension_modules[1] =
            ExtensionModule(<<"foo">>,
                            <<"/", "x", "/", "l", "i", "b", "f", "o", "o">>)
    /\ project.extension_modules[2].name = <<"bar">>
    /\ project.extension_modules[2].path = project.extension_modules[1].path
    /\ Len(ExtensionLibs) = 3
    /\ DirFlags(project.extension_modules[1].path) = 1
    /\ LinkFlags("foo") = 1
    /\ LinkFlags("bar") = 1

(***************************************************************************)
(* Builder.build as Spec runs it.                                          *)
(***************************************************************************)
Ended == pc \in {"done", "raised"}

\* The mount points of the resource groups whose .qrc file was written, in
\* the order they were written.
WrittenMounts == [i \in DOMAIN fs.qrcs |-> MOUNT \o fs.qrcs[i].resource]

C9_OnlyUserExceptionRaised ==
    pc = "raised" => error.type = "UserException"

\* The exception _freeze raises for the run.
FreezeFailure(run) ==
    UserException(<<"Unable to freeze ", run.py_filename, ".">>, run.out)

\* C10, as the specification states it: a freeze subprocess that exited
\* with a status other than zero, or gave any output, made _freeze raise the
\* failure that names the source file and carries the output.
C10_ExitStatusOrOutputRaises ==
    \A i \in DOMAIN fs.frozen :
        (fs.frozen[i].exit # 0 \/ fs.frozen[i].out # "") =>
            /\ i = Len(fs.frozen)
            /\ pc = "raised"
            /\ error = FreezeFailure(fs.frozen[i])

\* C10, as the code has it: a freeze subprocess that exited with a status
\* other than zero made _freeze raise the failure that names the source file
\* and carries the output, and one that exited with status zero did not,
\* whatever its output.
C10_ExitStatusRaises ==
    \A i \in DOMAIN fs.frozen :
        /\ fs.frozen[i].exit # 0 =>
            /\ i = Len(fs.frozen)
            /\ pc = "raised"
            /\ error = FreezeFailure(fs.frozen[i])
        /\ fs.frozen[i].exit = 0 =>
            \/ error # FreezeFailure(fs.frozen[i])
            \/ \E j \in DOMAIN fs.frozen :
                j > i /\ fs.frozen[j].py_filename = fs.frozen[i].py_filename

\* A run with status zero and output was followed by other runs, the last
\* of which had a status other than zero and ended the build.
C10_Witness ==
    /\ pc = "raised"
    /\ Len(fs.frozen) >= 2
    /\ fs.frozen[Len(fs.frozen)].exit # 0
    /\ \E i \in 1..(Len(fs.frozen) - 1) :
        fs.frozen[i].exit = 0 /\ fs.frozen[i].out # ""

(***************************************************************************)
(* SpecFile: a project is saved, or its file is one another version of the *)
(* program or another program left, and the file is loaded.  todo keeps    *)
(* what was done, result the project load returned, if it returned one.    *)
(***************************************************************************)
FilePackageLists ==
    {<<>>, <<QrcPackage(EMPTY, <<>>)>>, <<QrcPackage(<<"/", "q">>, <<>>)>>}
    \cup {<<QrcPackage(EMPTY, <<e>>)>> : e \in TopEntries}
    \cup {<<QrcPackage(<<"/", "q">>, <<e>>), QrcPackage(EMPTY, <<>>)>> :
            e \in TopEntries}
    \cup {<<QrcPackage(EMPTY, <<e>>), QrcPackage(EMPTY, <<e>>)>> :
            e \in TopEntries}
    \cup {<<QrcPackage(EMPTY, <<>>), QrcPackage(EMPTY, <<>>)>>}

\* The texts of a version attribute: ints up to 3, ints above 3, no ints.
SupportedTexts ==
    {<<"3">>, <<"2">>, <<"0">>, <<"-", "1">>, <<" ", "3">>, <<"+", "3">>,
     <<"0", "3">>}

NewerTexts == {<<"4">>, <<"1", "0">>, <<"+", "4">>}

NoIntTexts == {<<>>, <<"x">>, <<"3", ".", "0">>, <<"3", " ", "0">>, <<"-">>}

VersionTexts == SupportedTexts \cup NewerTexts \cup NoIntTexts

InitFile ==
    /\ \/ \E app \in TopContents, pkgs \in FilePackageLists,
             dir \in {EMPTY, <<"/", "p", "/", "s">>, StdlibDir} :
            project = [NewProject(ProjectName) EXCEPT
                            !.application_package = QrcPackage(<<"a">>, app),
                            !.packages = pkgs,
                            !.python_target_stdlib_dir = dir]
       \/ \E pyqt \in SeqsUpTo({"QtCore", "uic"}, MaxPyQt),
             ext \in SeqsUpTo({ExtensionModule(<<"foo">>, <<"/", "y">>),
                               ExtensionModule(NoName, <<>>)}, MaxExt),
             is5 \in BOOLEAN :
            project = [NewProject(ProjectName) EXCEPT
                            !.application_script = SCRIPT,
                            !.application_is_pyqt5 = is5,
                            !.extension_modules = ext,
                            !.pyqt_modules = pyqt,
                            !.modified = TRUE]
    /\ pc = "start"
    /\ error = NoError
    /\ fs = [file |-> NoFile]
    /\ todo = <<>>
    /\ result = <<>>

\* Project.save; tree.write writes the file or raises
SaveFile ==
    /\ pc = "start"
    /\ \/ /\ fs' = [file |-> [exists |-> TRUE, root |-> SaveProject(project)]]
          /\ project' = [project EXCEPT !.modified = FALSE]
          /\ error' = NoError
          /\ pc' = "saved"
       \/ /\ error' = UserException("There was an error writing the project file.", "OSError")
          /\ pc' = "unsaved"
          /\ UNCHANGED <<fs, project>>
    /\ todo' = <<"save">>
    /\ UNCHANGED result

\* The file of the project as something else wrote it: with another
\* version attribute, or with none.
FoundFile ==
    /\ pc = "start"
    /\ \/ \E text \in VersionTexts :
            fs' = [file |->
                    [exists |-> TRUE,
                     root |-> [SaveProject(project) EXCEPT
                                !.attrib = [version |-> text]]]]
       \/ fs' = [file |->
                    [exists |-> TRUE,
                     root |-> [SaveProject(project) EXCEPT !.attrib = <<>>]]]
    /\ pc' = "found"
    /\ todo' = <<"find">>
    /\ UNCHANGED <<project, error, result>>

\* Project.load(filename); tree.parse reads the file or raises
LoadFile ==
    /\ pc \in {"saved", "found"}
    /\ \E read \in BOOLEAN :
        \E r \in {IF read THEN Load(fs.file.root, ProjectName)
                  ELSE Raised(UserException("There was an error reading the project file.", "OSError"))} :
            /\ result' = IF r.err = NoError THEN <<r.value>> ELSE <<>>
            /\ error' = r.err
            /\ pc' = IF r.err = NoError THEN "loaded" ELSE "rejected"
            /\ todo' = Append(todo, IF read THEN "read" ELSE "unread")
    /\ UNCHANGED <<project, fs>>

NextFile == SaveFile \/ FoundFile \/ LoadFile

SpecFile == InitFile /\ [][NextFile]_vars

\* The file was read by load.
Read == pc \in {"loaded", "rejected"} /\ todo[2] = "read"

\* C11: a project that was saved and then loaded from the file written is
\* loaded without error, with the application package, the stdlib package,
\* the packages list, the scalar configuration, the PyQt modules and the
\* extension modules that were saved.
C11_SaveThenLoadGivesSameProject ==
    (Read /\ todo[1] = "save") =>
        /\ pc = "loaded"
        /\ Len(result) = 1
        /\ result[1].application_package = project.application_package
        /\ result[1].stdlib_package = project.stdlib_package
        /\ result[1].packages = project.packages
        /\ \A attr \in {"application_name", "application_is_pyqt5",
                        "application_script", "application_entry_point",
                        "build_dir", "python_host_interpreter",
                        "python_source_dir", "python_target_include_dir",
                        "python_target_library", "python_target_stdlib_dir",
                        "qmake", "sys_path"} :
                result[1][attr] = project[attr]
        /\ result[1].pyqt_modules = project.pyqt_modules
        /\ result[1].extension_modules = project.extension_modules

\* The file has a version attribute, and its text.
HasVersion == "version" \in DOMAIN fs.file.root.attrib

VersionText == fs.file.root.attrib.version

\* C12: load returns a project for a file, well formed otherwise, whose
\* version attribute is an int not above 3, and raises a UserException,
\* returning no project, when the attribute is an int above 3, is missing or
\* is no int.
C12_VersionDecidesLoad ==
    Read =>
        /\ (HasVersion /\ VersionText \in SupportedTexts) =>
                pc = "loaded" /\ error = NoError /\ Len(result) = 1
        /\ (~HasVersion \/ VersionText \in NewerTexts \cup NoIntTexts) =>
                /\ pc = "rejected"
                /\ error.type = "UserException"
                /\ result = <<>>

\* A file of version 2 was loaded and a project with packages returned.
C12_Witness ==
    /\ Read
    /\ HasVersion
    /\ VersionText = <<"2">>
    /\ pc = "loaded"
    /\ Len(result) = 1
    /\ result[1].packages # <<>>


(***************************************************************************)
(* The paths of the manifest entries, and the list they are built from.    *)
(***************************************************************************)
\* src as build passes it to _write_resource for the resource walked
WalkedSrc ==
    IF result.resource = EMPTY
    THEN AbsolutePath(project, project.application_package.name)
    ELSE PathJoin2(project.python_target_stdlib_dir, EMPTY)

\* dst_root_dir of _write_resource for the resource walked
WalkedDstRootDir ==
    IF result.resource = EMPTY THEN ResourcesDir
    ELSE PathJoin2(ResourcesDir, result.resource)

\* The resource identifier, unless it is the one of the application.
ResourceId ==
    IF result.resource = EMPTY THEN <<>> ELSE <<result.resource>>

\* The base name of the directory of the package, unless it is '' or '.'.
RootName ==
    IF PathSplit(WalkedSrc)[2] \in {EMPTY, DOT} THEN <<>>
    ELSE <<PathSplit(WalkedSrc)[2]>>

\* The names of the directories above the leaf at pos, below the package.
AncestorNames(pos) ==
    [k \in 1..(Len(pos) - 1) |-> NodeAt(WalkedTree, SubSeq(pos, 1, k)).name]

\* The name the leaf at pos is emitted under.
EmittedName(pos) == DstFile(NodeAt(WalkedTree, pos).name).dst_file

\* The directories of the tree walked, the package itself being <<>>.
Directories ==
    {<<>>} \cup {pos \in Positions(WalkedTree) : NodeAt(WalkedTree, pos).isdir}

\* The contents of the directory at pos, and the dir_stack a traversal of
\* it is called with.
ContentsAt(pos) ==
    IF pos = <<>> THEN WalkedTree ELSE NodeAt(WalkedTree, pos).contents

StackAt(pos) ==
    IF pos = <<>> THEN <<PathSplit(WalkedSrc)[2]>>
    ELSE RootName \o AncestorNames(pos) \o <<NodeAt(WalkedTree, pos).name>>

\* The entries written, none when the manifest was not created.
Entries == IF fs.qrcs = <<>> THEN <<>> ELSE Manifest

\* Every traversal of a directory of the tree that returns leaves the list
\* of its caller as it was called with.
StackRestored ==
    \A pos \in Directories :
        \A r \in {WritePackageContents(Start(EmptyFs, result.fault),
                                       ContentsAt(pos), WalkedDstRootDir,
                                       PathSplit(WalkedSrc)[1],
                                       StackAt(pos))} :
            Ok(r.st) => r.dir_stack = StackAt(pos)

\* C13 as stated: every manifest entry is the resource identifier (none for
\* the application), the names of the directories between the package and
\* the leaf, and the emitted file name; and a traversal that returns leaves
\* the directory stack as it was.
C13_EntryIsIdAncestorsName ==
    Walked =>
        /\ \A i \in DOMAIN Entries :
            \E pos \in EmittedLeaves(WalkedTree) :
                Entries[i] = StrJoin(SEP, ResourceId \o AncestorNames(pos)
                                            \o <<EmittedName(pos)>>)
        /\ StackRestored

\* C13, amended: between the resource identifier and the names of the
\* directories the entry carries the base name of the directory of the
\* package, unless that name is '' (as for the stdlib) or '.'.
C13_EntryIsIdRootAncestorsName ==
    Walked =>
        /\ \A i \in DOMAIN Entries :
            \E pos \in EmittedLeaves(WalkedTree) :
                Entries[i] = StrJoin(SEP, ResourceId \o RootName
                                            \o AncestorNames(pos)
                                            \o <<EmittedName(pos)>>)
        /\ StackRestored

\* The application package of directory 'a' was walked without error and a
\* leaf inside a directory of it emitted.
C13_Witness ==
    /\ Walked
    /\ error = NoError
    /\ result.resource = EMPTY
    /\ RootName = <<<<"a">>>>
    /\ \E pos \in EmittedLeaves(WalkedTree) :
        /\ Len(pos) = 2
        /\ \E i \in DOMAIN Manifest :
            Manifest[i] = StrJoin(SEP, RootName \o AncestorNames(pos)
                                        \o <<EmittedName(pos)>>)


(***************************************************************************)
(* What is done with each leaf emitted.                                    *)
(***************************************************************************)
\* dir_tail and dst_dir of the traversal of the directory that holds pos
DirTailOf(pos) == PathJoin(StackAt(SubSeq(pos, 1, Len(pos) - 1)))

DstDirOf(pos) ==
    IF DirTailOf(pos) = EMPTY THEN WalkedDstRootDir
    ELSE PathJoin2(WalkedDstRootDir, DirTailOf(pos))

\* src_path of the leaf at pos
SrcPathOf(pos) ==
    PathJoin(<<PathSplit(WalkedSrc)[1], DirTailOf(pos),
               NodeAt(WalkedTree, pos).name>>)

\* The name ends with '.py' or with '.pyw'.
IsPythonSource(name) == EndsWith(name, EXT_PY) \/ EndsWith(name, EXT_PYW)

\* The name with that extension replaced by '.pyf'.
PyfName(name) ==
    IF EndsWith(name, EXT_PYW) THEN DropLast(name, 4) \o EXT_PYF
    ELSE DropLast(name, 3) \o EXT_PYF

\* The emitted leaves that are the same file as the leaf at pos.
SameFile(pos) ==
    {q \in EmittedLeaves(WalkedTree) : SrcPathOf(q) = SrcPathOf(pos)}

FreezesOf(pos) ==
    {i \in DOMAIN fs.frozen : fs.frozen[i].py_filename = SrcPathOf(pos)}

CopiesOf(pos) ==
    {i \in DOMAIN fs.copied : fs.copied[i].src = SrcPathOf(pos)}

\* C14: when a resource group was written, each emitted leaf whose name ends
\* with '.py' or '.pyw' was frozen once, as data and not as the entry
\* point, to the name with '.pyf' for the extension, which is the name in
\* the manifest, and was not copied; each other emitted leaf was copied once
\* to its own name, which is the name in the manifest, and not frozen.
\* Whether the walk ended or not, nothing else was frozen or copied.
C14_PythonSourceFrozenElseCopied ==
    Walked =>
        /\ error = NoError =>
            \A pos \in EmittedLeaves(WalkedTree) :
                LET name == NodeAt(WalkedTree, pos).name
                IN  IF IsPythonSource(name)
                    THEN /\ Cardinality(FreezesOf(pos))
                                = Cardinality(SameFile(pos))
                         /\ CopiesOf(pos) = {}
                         /\ \A i \in FreezesOf(pos) :
                                /\ fs.frozen[i].as_data
                                /\ ~fs.frozen[i].main
                                /\ fs.frozen[i].output =
                                    PathJoin2(DstDirOf(pos), PyfName(name))
                         /\ \E i \in DOMAIN Manifest :
                                Basename(Manifest[i]) = PyfName(name)
                    ELSE /\ Cardinality(CopiesOf(pos))
                                = Cardinality(SameFile(pos))
                         /\ FreezesOf(pos) = {}
                         /\ \A i \in CopiesOf(pos) :
                                fs.copied[i].dst = PathJoin2(DstDirOf(pos), name)
                         /\ \E i \in DOMAIN Manifest :
                                Basename(Manifest[i]) = name
        /\ \A i \in DOMAIN fs.frozen :
            \E pos \in EmittedLeaves(WalkedTree) :
                /\ i \in FreezesOf(pos)
                /\ IsPythonSource(NodeAt(WalkedTree, pos).name)
        /\ \A i \in DOMAIN fs.copied :
            \E pos \in EmittedLeaves(WalkedTree) :
                /\ i \in CopiesOf(pos)
                /\ ~IsPythonSource(NodeAt(WalkedTree, pos).name)

\* A group with a '.pyw' file and a data file was written: one was frozen,
\* the other copied.
C14_Witness ==
    /\ Walked
    /\ error = NoError
    /\ \E i \in DOMAIN fs.frozen : EndsWith(fs.frozen[i].py_filename, EXT_PYW)
    /\ \E i \in DOMAIN fs.copied : Basename(fs.copied[i].src) = DATA_FILE


(***************************************************************************)
(* The RESOURCES statement of the .pro file and the .qrc files written.    *)
(***************************************************************************)
\* The files the RESOURCES statement of the .pro file names.
ListedManifests ==
    IF ~fs.pro.exists THEN {}
    ELSE UNION {{fs.pro.lines[i].values[k] :
                    k \in DOMAIN fs.pro.lines[i].values} :
                i \in {j \in DOMAIN fs.pro.lines :
                        fs.pro.lines[j].var = "RESOURCES"}}

\* The .qrc files created, as they are named from the build directory.
WrittenManifests ==
    {RESOURCES \o SEP \o fs.qrcs[i].file : i \in DOMAIN fs.qrcs}

Frozen(output) == \E i \in DOMAIN fs.frozen : fs.frozen[i].output = output

\* _write_qmake has written all it writes.
QmakeWritten ==
    /\ fs.pro.exists
    /\ fs.pro.closed
    /\ fs.main_c.exists
    /\ fs.bootstrap.exists
    /\ Frozen(PathJoin2(BuildDir, FROZEN_BOOTSTRAP_H))
    /\ Frozen(PathJoin2(BuildDir, FROZEN_MAIN_H))
    /\ fs.version_h

\* The resource groups whose .qrc file was created, in that order.
GroupsWritten == [i \in DOMAIN fs.qrcs |-> fs.qrcs[i].resource]

\* C16 as stated: the directories are created first, then the .qrc file of
\* every resource group of resources() is written, then __bootstrap__.py,
\* main.c and the frozen headers, and the .pro file last: whenever one of
\* these files is there, so is the resources directory and the .qrc file of
\* every group, and whenever the .pro file is there, so are the others.
C16_DescriptorAfterManifests ==
    /\ fs.qrcs # <<>> => {BuildDir, ResourcesDir} \subseteq fs.dirs
    /\ (fs.main_c.exists \/ fs.bootstrap.exists \/ fs.pro.exists) =>
            /\ ResourcesDir \in fs.dirs
            /\ Resources(project).err = NoError
            /\ GroupsWritten = Resources(project).value
    /\ fs.pro.exists =>
            /\ fs.main_c.exists
            /\ fs.bootstrap.exists
            /\ Frozen(PathJoin2(BuildDir, FROZEN_BOOTSTRAP_H))
            /\ Frozen(PathJoin2(BuildDir, FROZEN_MAIN_H))

\* C16, amended: the build directory is created first, then the .pro file,
\* main.c, __bootstrap__.py, the frozen headers and the version header are
\* written, in that order; then the resources directory is created, and
\* only then .qrc files are written, each for one resource group, in the
\* order of resources() and none twice.
C16_ManifestsAfterDescriptor ==
    /\ (fs.tmp_freeze \/ fs.pro.exists) => BuildDir \in fs.dirs
    /\ fs.main_c.exists => fs.pro.exists
    /\ fs.bootstrap.exists => fs.main_c.exists
    /\ Frozen(PathJoin2(BuildDir, FROZEN_BOOTSTRAP_H)) => fs.bootstrap.exists
    /\ Frozen(PathJoin2(BuildDir, FROZEN_MAIN_H)) =>
            Frozen(PathJoin2(BuildDir, FROZEN_BOOTSTRAP_H))
    /\ fs.version_h => Frozen(PathJoin2(BuildDir, FROZEN_MAIN_H))
    /\ ResourcesDir \in fs.dirs => QmakeWritten
    /\ fs.qrcs # <<>> =>
            /\ ResourcesDir \in fs.dirs
            /\ Resources(project).err = NoError
            /\ Len(GroupsWritten) <= Len(Resources(project).value)
            /\ GroupsWritten = SubSeq(Resources(project).value, 1,
                                      Len(GroupsWritten))
            /\ \A i, j \in DOMAIN GroupsWritten :
                    GroupsWritten[i] = GroupsWritten[j] => i = j

\* Two resource groups were written, after all _write_qmake writes.
C16_Witness ==
    /\ Len(fs.qrcs) = 2
    /\ fs.qrcs[2].closed
    /\ QmakeWritten
    /\ ResourcesDir \in fs.dirs


(***************************************************************************)
(* The table of initializers of main.c.                                    *)
(***************************************************************************)
\* tab has one entry for each linked name, with the initializer named by
\* the prefix and the last part of the name, and then the sentinel.
IsTableOfLinkedNames(tab, init_prefix) ==
    /\ Len(tab) = Cardinality(LinkedNames) + 1
    /\ tab[Len(tab)].name = NULL
    /\ tab[Len(tab)].init = NULL
    /\ \A n \in LinkedNames :
        /\ Cardinality({i \in 1..(Len(tab) - 1) : tab[i].name = n}) = 1
        /\ \A i \in 1..(Len(tab) - 1) :
            tab[i].name = n => tab[i].init = <<init_prefix, n[Len(n)]>>

\* C17: main.c defines the table extension_modules exactly when there is an
\* extension module (a declared one with a name, a requested PyQt module
\* other than uic, or sip with any PyQt module requested) and passes NULL
\* otherwise; the table for Python 3 and the one for Python 2 have one
\* entry for each module, of its dotted name and PyInit_ or init with the
\* last part of the name, and then {NULL, NULL}.
C17_InitTabOfExtensionModules ==
    fs.main_c.exists =>
        IF LinkedNames # {}
        THEN /\ fs.main_c.inittab = "extension_modules"
             /\ IsTableOfLinkedNames(fs.main_c.py3, "PyInit_")
             /\ IsTableOfLinkedNames(fs.main_c.py2, "init")
        ELSE /\ fs.main_c.inittab = NULL
             /\ fs.main_c.py3 = <<>>
             /\ fs.main_c.py2 = <<>>

\* The module p.foo is declared with QtCore requested: the table has
\* p.foo with PyInit_foo, PyQt5.QtCore, sip and the sentinel.
C17_Witness ==
    /\ fs.main_c.exists
    /\ fs.main_c.inittab = "extension_modules"
    /\ LinkedNames = {<<"p", "foo">>, <<"PyQt5", "QtCore">>, <<"sip">>}
    /\ Len(fs.main_c.py3) = 4
    /\ fs.main_c.py3[1].init = <<"PyInit_", "foo">>
    /\ fs.main_c.py2[1].init = <<"init", "foo">>

\* How many entries of the table are for sip.
SipEntries(tab) ==
    Cardinality({i \in 1..(Len(tab) - 1) : tab[i].name = <<"sip">>})

\* sip is a declared extension module.
SipDeclared ==
    \E i \in Declared : project.extension_modules[i].name = <<"sip">>

\* The declared names, other than sip, whose library is named sip too.
NamedLikeSip ==
    {project.extension_modules[i].name : i \in Declared}
        \cap {<<"p", "sip">>}

\* C18: with a PyQt module requested, be it uic alone, the LIBS statement
\* has the flag of sip once and the tables of main.c have one entry for
\* sip; with none requested they have them exactly when sip is declared.
\* (A declared module p.sip is another module: it has a flag and an entry
\* of its own, and its flag is spelled as the one of sip.)
C18_SipOnceWhenPyQtRequested ==
    /\ ProWritten =>
        LinkFlags("sip") =
            (IF Requested # {} \/ SipDeclared THEN 1 ELSE 0)
                + Cardinality(NamedLikeSip)
    /\ fs.main_c.exists =>
        /\ SipEntries(fs.main_c.py3) =
                IF Requested # {} \/ SipDeclared THEN 1 ELSE 0
        /\ SipEntries(fs.main_c.py2) =
                IF Requested # {} \/ SipDeclared THEN 1 ELSE 0

\* uic alone is requested and sip is declared as well: one flag, one entry.
C18_Witness ==
    /\ ProWritten
    /\ fs.main_c.exists
    /\ Requested = {"uic"}
    /\ SipDeclared
    /\ LinkFlags("sip") = 1
    /\ SipEntries(fs.main_c.py3) = 1


(***************************************************************************)
(* The uic directory in the site-packages resource group.                  *)
(***************************************************************************)
\* The files on disk below a directory, each as the names from the
\* directory down to it, but for port_v2 and __pycache__ and what is below
\* them.
RECURSIVE KeptFiles(_)
KeptFiles(listing) ==
    UNION {IF listing[i].name \in {PORT_V2, PYCACHE} THEN {}
           ELSE IF listing[i].kind = "file" THEN {<<listing[i].name>>}
           ELSE {<<listing[i].name>> \o path :
                    path \in KeptFiles(listing[i].contents)} :
           i \in DOMAIN listing}

\* The manifest entry of a file of the PyQt package.
PyQtEntry(path) ==
    StrJoin(SEP, <<SITE_PACKAGES, PyQtDir(project)>>
                    \o SubSeq(path, 1, Len(path) - 1)
                    \o <<DstFile(path[Len(path)]).dst_file>>)

\* The entries of the manifests written that are below the PyQt package.
PyQtEntries ==
    {entry \in UNION {{fs.qrcs[i].entries[k] :
                            k \in DOMAIN fs.qrcs[i].entries} :
                      i \in DOMAIN fs.qrcs} :
        StartsWith(entry, StrJoin(SEP, <<SITE_PACKAGES, PyQtDir(project)>>)
                            \o SEP)}

\* C19: a build in which no call to the outside world failed completes;
\* with uic requested the files of the PyQt package it has emitted are
\* __init__.py and every file below the uic directory on disk that is not
\* port_v2 or __pycache__ or below one of them, whatever the flags of the
\* trees of the project; without uic requested no file of the uic
\* directory is emitted.
C19_UicDirectoryEmittedInFull ==
    (Ended /\ error.type \notin {"UserException", "OSError"}) =>
        /\ pc = "done"
        /\ PyQtEntries =
            IF "uic" \in Requested
            THEN {PyQtEntry(<<INIT_PY>>)}
                    \cup {PyQtEntry(<<UIC>> \o path) :
                            path \in KeptFiles(UicDisk)}
            ELSE IF Requested # {} THEN {PyQtEntry(<<INIT_PY>>)}
            ELSE {}


(***************************************************************************)
(* Failures: what build has done when it raises.                           *)
(***************************************************************************)
\* The statement of build that is next, run from the state as it is with
\* the fault.
Attempt(fault) ==
    CASE pc = "create_build_dir" ->
            CreateDirectory(Start(fs, fault), BuildDir)
      [] pc = "copy_freeze" ->
            CopyLibFileToTemp(Start(fs, fault), "freeze.py")
      [] pc = "write_qmake" ->
            WriteQmake(Start(fs, fault), project, BuildDir)
      [] pc = "create_resources_dir" ->
            LoopOver(CreateDirectory(Start(fs, fault), ResourcesDir),
                     Resources(project))
      [] pc = "resources" /\ todo # <<>> ->
            BuildResource(Start(fs, fault), project, ResourcesDir, todo[1])
      [] OTHER -> RemoveFreeze(Start(fs, NoFault))

IsPrefix(s, t) == Len(s) <= Len(t) /\ s = SubSeq(t, 1, Len(s))

\* All that is written in f is in g as it was.
Kept(f, g) ==
    /\ f.dirs \subseteq g.dirs
    /\ f.libs \subseteq g.libs
    /\ IsPrefix(f.frozen, g.frozen)
    /\ IsPrefix(f.copied, g.copied)
    /\ Len(f.qrcs) <= Len(g.qrcs)
    /\ \A i \in DOMAIN f.qrcs :
        /\ g.qrcs[i].file = f.qrcs[i].file
        /\ IsPrefix(f.qrcs[i].entries, g.qrcs[i].entries)
    /\ f.pro.exists =>
        /\ g.pro.exists
        /\ g.pro.name = f.pro.name
        /\ IsPrefix(f.pro.lines, g.pro.lines)
    /\ f.main_c.exists => g.main_c = f.main_c
    /\ f.bootstrap.exists => g.bootstrap = f.bootstrap
    /\ f.version_h => g.version_h

\* The files of the application package and of the stdlib package that the
\* walk of their trees emits, counted once for each entry of a tree.
LeavesToEmit ==
    Cardinality(EmittedLeaves(project.application_package.contents))
        + Cardinality(EmittedLeaves(project.stdlib_package.contents))

\* What a step of build keeps to.
NoRetryNoRollback ==
    /\ pc # "raised"
    /\ Kept(fs, fs')
    /\ Len(fs'.frozen) + Len(fs'.copied) <= LeavesToEmit + 2
    /\ \A i \in DOMAIN fs'.frozen :
            fs'.frozen[i].exit # 0 => i = Len(fs'.frozen) /\ pc' = "raised"
    /\ pc' = "raised" =>
        \A st \in {Attempt(result'[Len(result')])} :
            /\ st.fs = fs'
            /\ st.err = error'
            /\ error'.type \in {"UserException", "OSError"} =>
                    st.n = st.fault.at

\* C20: no step of build follows one that raised; a step leaves in place
\* all that was written before it; no more files are frozen and copied
\* than the trees list and _write_qmake freezes, and a freeze that failed is
\* the last; and the call to the file system or to the subprocess that made
\* a step raise is the last call of the step: nothing is tried again and
\* nothing is frozen, copied or written after it.
C20_AbortAtFirstFailure == [][NoRetryNoRollback]_vars

\* The copy of a file of the stdlib failed after the application package
\* was written: what was written is there.
C20_Witness ==
    /\ pc = "raised"
    /\ error = OSError
    /\ Len(fs.qrcs) = 2
    /\ fs.qrcs[1].closed
    /\ ~fs.qrcs[2].closed
    /\ Len(fs.frozen) >= 3
    /\ QmakeWritten

(***************************************************************************)
(* The QT and CONFIG values of the .pro file.                              *)
(***************************************************************************)
\* The qt tokens of the requested modules' entries, in order of request.
RECURSIVE RequiredQt(_)
RequiredQt(i) ==
    IF i > Len(project.pyqt_modules) THEN <<>>
    ELSE (IF project.pyqt_modules[i] \in DOMAIN ModuleMap(project)
             /\ ModuleMap(project)[project.pyqt_modules[i]].qt # None
          THEN ModuleMap(project)[project.pyqt_modules[i]].qt ELSE <<>>)
         \o RequiredQt(i + 1)

\* The config tokens of the requested modules' entries, in order of request.
RECURSIVE RequiredConfig(_)
RequiredConfig(i) ==
    IF i > Len(project.pyqt_modules) THEN <<>>
    ELSE (IF project.pyqt_modules[i] \in DOMAIN ModuleMap(project)
             /\ ModuleMap(project)[project.pyqt_modules[i]].config # None
          THEN ModuleMap(project)[project.pyqt_modules[i]].config ELSE <<>>)
         \o RequiredConfig(i + 1)

\* The value lists of the lines 'var op ...' of the .pro file, in order.
ProValues(var, op) ==
    SelectSeq(fs.pro.lines, LAMBDA l : l.var = var /\ l.op = op)

FirstAt(xs, x) == CHOOSE i \in DOMAIN xs : xs[i] = x /\ \A j \in 1..(i - 1) : xs[j] # x

\* values holds each item of required other than '-gui' once, in the order
\* in which the items first occur in required.
IsFirstOccurrences(values, required) ==
    /\ \A i \in DOMAIN values :
         /\ values[i] # "-gui"
         /\ \E k \in DOMAIN required : required[k] = values[i]
    /\ \A k \in DOMAIN required :
         required[k] # "-gui" => \E i \in DOMAIN values : values[i] = required[k]
    /\ \A i, j \in DOMAIN values :
         i < j => /\ values[i] # values[j]
                  /\ FirstAt(required, values[i]) < FirstAt(required, values[j])

\* C21: in the .pro file the 'QT +=' line lists every qt token of the
\* requested PyQt modules other than '-gui' exactly once, in order of first
\* occurrence, and the 'CONFIG +=' line written after the fixed
\* 'CONFIG += release warn_on' lists every config token of the requested
\* modules exactly once; each of the two lines is there only when it has a
\* token to list.
C21_QtAndConfigListedOnce ==
    ProWritten =>
        /\ LET qt == ProValues("QT", "+=")
           IN  /\ Len(qt) = (IF \E k \in DOMAIN RequiredQt(1) :
                                    RequiredQt(1)[k] # "-gui" THEN 1 ELSE 0)
               /\ \A n \in DOMAIN qt :
                    IsFirstOccurrences(qt[n].values, RequiredQt(1))
        /\ LET config == ProValues("CONFIG", "+=")
           IN  /\ Len(config) = (IF RequiredConfig(1) # <<>> THEN 2 ELSE 1)
               /\ config[1].values = <<"release", "warn_on">>
               /\ \A n \in 2..Len(config) :
                    IsFirstOccurrences(config[n].values, RequiredConfig(1))

\* Two modules are requested whose entries share the token 'widgets': it is
\* listed once, after 'sql'.
C21_Witness ==
    /\ ProWritten
    /\ project.application_is_pyqt5
    /\ project.pyqt_modules = <<"QtSql", "QtWidgets">>
    /\ HasProLine(Line("QT", "+=", <<"sql", "widgets">>))

(***************************************************************************)
(* The packages load returns for the Package elements of the file.         *)
(***************************************************************************)
\* The packages the file's SitePackages element holds: the file is the one
\* save writes for project, whatever its version attribute.
FilePackages == project.packages

\* The directory a first package with a blank name stood for.
LegacySitePackages ==
    PathJoin2(project.python_target_stdlib_dir, SITE_PACKAGES)

\* name spells path relative to the directory of the project file: it is
\* relative when path lies in that directory, and names path in any case.
IsProjectRelative(name, path) ==
    /\ AbsolutePath(result[1], name) = AbsolutePath(result[1], path)
    /\ StartsWith(path, Dirname(result[1].name) \o SEP)
            => ~StartsWith(name, SEP)

Cwd == <<"/", "w">>

\* os.path.abspath, for names without '.' and '..' parts
Abspath(filename) ==
    IF StartsWith(filename, SEP) THEN filename ELSE PathJoin2(Cwd, filename)

\* Project.modified, the setter
SetModified(o, value) ==
    IF o.project.modified # value
    THEN [o EXCEPT !.project.modified = value,
                   !.modified_changed = Append(@, value)]
    ELSE o

\* Project.name, the setter
SetName(o, value) ==
    IF o.project.name # value
    THEN [o EXCEPT !.project.name = value,
                   !.name_changed = Append(@, value)]
    ELSE o

\* The files project files are written to and read from.
DiskNames == {ProjectName, <<"/", "p", "/", "y">>, PathJoin2(Cwd, <<"y">>)}

ProjectFile(root) == [exists |-> TRUE, root |-> root]

\* What a write that failed half way leaves: no parser takes it.
Truncated == ProjectFile(NoElement)

\* The ways tree.write can go: the file is written, cannot be opened, or is
\* opened and not written to its end.
WriteOutcomes == {"ok", "noopen", "partial"}

WriteError ==
    UserException("There was an error writing the project file.", "OSError")

\* Project._save_project; how is what tree.write does.  No file has the
\* name ''.
SaveProjectTo(o, abs_filename, how) ==
    IF abs_filename \notin DiskNames \/ how = "noopen"
    THEN [o EXCEPT !.err = WriteError]
    ELSE IF how = "partial"
    THEN [o EXCEPT !.files[abs_filename] = Truncated, !.err = WriteError]
    ELSE SetModified(
            [o EXCEPT !.files[abs_filename] =
                            ProjectFile(SaveProject(o.project))],
            FALSE)

\* Project.save
Save(o, how) == SaveProjectTo(o, o.project.name, how)

\* A faulty variant: the name is set before the file is written.
SaveAsNamedFirst(o0, filename, how) ==
    SaveProjectTo(SetName(o0, Abspath(filename)), Abspath(filename), how)

\* Project.save_as
SaveAs(o0, filename, how) ==
    Only({IF o.err # NoError THEN o ELSE SetName(o, Abspath(filename)) :
          o \in {SaveProjectTo(o0, Abspath(filename), how)}})

\* A call on the project, with nothing emitted or raised yet.
Call(p, files) ==
    [project |-> p, files |-> files, modified_changed |-> <<>>,
     name_changed |-> <<>>, err |-> NoError]

(***************************************************************************)
(* SpecSave: a project is edited, saved and saved under other names.       *)
(* result keeps what the last call emitted, todo the call and how many     *)
(* calls were made.                                                        *)
(***************************************************************************)
MaxCalls == 3

\* The names save_as is given.
SaveAsNames == {ProjectName, <<"/", "p", "/", "y">>, <<"y">>, <<"/", "n", "o">>}

InitSave ==
    /\ \E name \in {EMPTY, ProjectName}, modified \in BOOLEAN :
        project = [NewProject(name) EXCEPT !.modified = modified]
    /\ pc = "idle"
    /\ error = NoError
    /\ fs = [files |-> [f \in DiskNames |-> NoFile]]
    /\ todo = [call |-> "init", filename |-> EMPTY, how |-> "ok", n |-> 0]
    /\ result = [modified_changed |-> <<>>, name_changed |-> <<>>]

\* What every call leaves.
AfterCall(o, call, filename, how) ==
    /\ project' = o.project
    /\ fs' = [files |-> o.files]
    /\ error' = o.err
    /\ result' = [modified_changed |-> o.modified_changed,
                  name_changed |-> o.name_changed]
    /\ todo' = [call |-> call, filename |-> filename, how |-> how,
                n |-> todo.n + 1]
    /\ UNCHANGED pc

\* project.python_host_interpreter = value; project.modified = True
EditProject ==
    /\ todo.n < MaxCalls
    /\ \E value \in {EMPTY, <<"h">>} :
        AfterCall(SetModified(
                    Call([project EXCEPT !.python_host_interpreter = value],
                         fs.files), TRUE),
                  "edit", value, "ok")

\* project.save()
SaveCalled ==
    /\ todo.n < MaxCalls
    /\ \E how \in WriteOutcomes :
        AfterCall(Save(Call(project, fs.files), how),
                  "save", project.name, how)

\* project.save_as(filename)
SaveAsCalled ==
    /\ todo.n < MaxCalls
    /\ \E filename \in SaveAsNames, how \in WriteOutcomes :
        AfterCall(SaveAs(Call(project, fs.files), filename, how),
                  "save_as", filename, how)

NextSave == EditProject \/ SaveCalled \/ SaveAsCalled

SpecSave == InitSave /\ [][NextSave]_vars

\* values are the values a signal was emitted with while the stored value
\* went from old to new: one for each change, none otherwise.
EmittedOnChange(values, old, new) ==
    IF old = new THEN values = <<>> ELSE values = <<new>>

\* The file a save or save_as call is to write.
Destination ==
    IF todo'.call = "save" THEN project.name ELSE Abspath(todo'.filename)

\* C23, as a step: a save or save_as call that writes its file leaves the
\* file holding the project, the modified flag cleared and, for save_as,
\* the name set to the file written; a call that fails raises a
\* UserException and leaves name and modified as they were; and each signal
\* is emitted once when the stored value changed and not at all otherwise.
SavedOrUnchanged ==
    todo'.call \in {"save", "save_as"} =>
        /\ IF error' = NoError
           THEN /\ fs'.files[Destination] = ProjectFile(SaveProject(project))
                /\ project'.modified = FALSE
                /\ project'.name = Destination
           ELSE /\ error'.type = "UserException"
                /\ project'.name = project.name
                /\ project'.modified = project.modified
        /\ EmittedOnChange(result'.modified_changed,
                           project.modified, project'.modified)
        /\ EmittedOnChange(result'.name_changed,
                           project.name, project'.name)
        /\ project' = [project EXCEPT !.name = project'.name,
                                      !.modified = project'.modified]

C23_SaveClearsModifiedAfterWriting == [][SavedOrUnchanged]_vars

\* A modified project was saved under the name 'y': the file is written in
\* the working directory, the flag is cleared, the name is the file's, and
\* each signal was emitted once.
C23_Witness ==
    /\ todo.call = "save_as"
    /\ todo.filename = <<"y">>
    /\ error = NoError
    /\ project.name = PathJoin2(Cwd, <<"y">>)
    /\ fs.files[project.name].exists
    /\ result.modified_changed = <<FALSE>>
    /\ result.name_changed = <<project.name>>

(***************************************************************************)
(* Builder.build as one call, as ProjectGUI makes it.                      *)
(***************************************************************************)
\* 'for resource in self.resources()' from the first of todo_list on
RECURSIVE BuildResources(_, _, _, _)
BuildResources(st0, p, resources_dir, todo_list) ==
    Only({IF ~Ok(st) \/ todo_list = <<>> THEN st
          ELSE BuildResources(
                    BuildResource(st, p, resources_dir, todo_list[1]),
                    p, resources_dir, Tail(todo_list)) :
          st \in {st0}})

\* Builder.build
Build(st0, p, build_dir) ==
    Only({IF Ok(st) THEN RemoveFreeze(st) ELSE st :
          st \in {BuildResources(
                    LoopOver(
                        CreateDirectory(
                            WriteQmake(
                                CopyLibFileToTemp(
                                    CreateDirectory(st0, build_dir),
                                    "freeze.py"),
                                p, build_dir),
                            PathJoin2(build_dir, RESOURCES)),
                        Resources(p)),
                    p, PathJoin2(build_dir, RESOURCES),
                    Resources(p).value)}})

(***************************************************************************)
(* ProjectGUI.  A handler works on a record g: the project of the window,  *)
(* the files on disk, what builds left, the signals the project emitted,   *)
(* the message boxes shown, the exception raised and the value returned.   *)
(***************************************************************************)
\* A message box: about is what it tells of, text the text of an exception.
MessageBox(icon, title, about) ==
    [icon |-> icon, title |-> title, about |-> about, text |-> ""]

Show(g, box) == [g EXCEPT !.boxes = Append(@, box)]

Return(g, value) == [g EXCEPT !.ret = value]

\* ProjectGUI._handle_exception for the exception a call raised
HandleException(g, title) ==
    [Show(g, [MessageBox("Warning", title, "exception") EXCEPT
                    !.text = g.err.text]) EXCEPT
        !.err = NoError]

\* ProjectGUI._save_project
GuiSaveProject(g0, how) ==
    Only({IF g.err # NoError THEN Return(HandleException(g, "Save"), FALSE)
          ELSE Return(g, TRUE) :
          g \in {Save(g0, how)}})

\* ProjectGUI._save_as_project; filename is what the file dialog returns
GuiSaveAsProject(g0, filename, how) ==
    IF filename = EMPTY THEN Return(g0, FALSE)
    ELSE Only({IF g.err # NoError
               THEN Return(HandleException(g, "Save"), FALSE)
               ELSE Return(g, TRUE) :
               g \in {SaveAs(g0, filename, how)}})

\* A faulty variant: Cancel is taken as Discard.
CurrentProjectDoneOnCancel(g0, ans, filename, how) ==
    IF g0.project.modified /\ ans = "Save"
    THEN IF g0.project.name # EMPTY
         THEN GuiSaveProject(
                Show(g0, MessageBox("Question", "Save", "modified")), how)
         ELSE GuiSaveAsProject(
                Show(g0, MessageBox("Question", "Save", "modified")),
                filename, how)
    ELSE Return(g0, TRUE)

\* ProjectGUI._current_project_done; ans is the button the user chose
CurrentProjectDone(g0, ans, filename, how) ==
    IF g0.project.modified
    THEN Only({IF ans = "Cancel" THEN Return(g, FALSE)
               ELSE IF ans = "Save"
               THEN IF g.project.name # EMPTY THEN GuiSaveProject(g, how)
                    ELSE GuiSaveAsProject(g, filename, how)
               ELSE Return(g, TRUE) :
               g \in {Show(g0, MessageBox("Question", "Save", "modified"))}})
    ELSE Return(g0, TRUE)

\* ProjectGUI._set_project
SetProject(g, p) == [g EXCEPT !.project = p, !.replaced = TRUE]

\* Project.load; read is whether the file can be read
LoadProject(files, filename, read) ==
    IF \/ ~read
       \/ Abspath(filename) \notin DiskNames
       \/ ~files[Abspath(filename)].exists
       \/ files[Abspath(filename)] = Truncated
    THEN Raised(UserException("There was an error reading the project file.",
                              "OSError"))
    ELSE Load(files[Abspath(filename)].root, Abspath(filename))

\* ProjectGUI._missing_prereq
MissingPrereq(g, missing) ==
    Show(g, MessageBox("Warning", "Build Project", missing))

\* ProjectGUI._build_project, the prerequisite checks: the one that fails,
\* or None
Prereqs(p) ==
    IF p.application_script = EMPTY THEN "main script file"
    ELSE IF p.python_host_interpreter = EMPTY THEN "host interpreter"
    ELSE IF p.application_script = EMPTY
    THEN "target Python include directory"
    ELSE IF p.application_script = EMPTY THEN "target Python library"
    ELSE None

\* ProjectGUI._build_project; build_dir is what the file dialog returns,
\* fault what goes wrong outside
BuildProject(g, build_dir, fault) ==
    IF Prereqs(g.project) # None THEN MissingPrereq(g, Prereqs(g.project))
    ELSE IF build_dir = EMPTY THEN g
    ELSE Only({
            IF Ok(st)
            THEN Show([g EXCEPT !.build = st.fs, !.project = st.project],
                      MessageBox("Information", "Build Project", "built"))
            ELSE IF st.err.type = "UserException"
            THEN HandleException([g EXCEPT !.build = st.fs, !.err = st.err,
                                           !.project = st.project],
                                 "Build Project")
            ELSE [g EXCEPT !.build = st.fs, !.err = st.err,
                           !.project = st.project] :
            st \in {Build(Start(g.build, fault), g.project, build_dir)}})

(***************************************************************************)
(* SpecGui: the window of a project and what its user does.  todo keeps    *)
(* the handler that ran last with what the user answered and how many      *)
(* handlers ran, result what the handler showed and did.                   *)
(***************************************************************************)
MaxHandlers == 3

\* The name a file dialog returns: '' when it is cancelled.
DialogNames == {EMPTY, <<"/", "p", "/", "y">>}

\* A project file on disk that the window's user did not write.
OtherProject ==
    [NewProject(EMPTY) EXCEPT !.application_script = SCRIPT,
                              !.python_host_interpreter = <<"h">>]

NoAnswers ==
    [ans |-> "none", save_as |-> EMPTY, how |-> "ok", open |-> EMPTY,
     read |-> TRUE, dir |-> EMPTY]

InitGui ==
    /\ \E name \in {EMPTY, ProjectName}, script \in {EMPTY, SCRIPT},
          lib \in {EMPTY, <<"/", "l">>} :
        project = [NewProject(name) EXCEPT !.application_script = script,
                                           !.python_target_library = lib]
    /\ pc = "idle"
    /\ error = NoError
    /\ fs = [files |-> [f \in DiskNames |->
                            IF f = <<"/", "p", "/", "y">>
                            THEN ProjectFile(SaveProject(OtherProject))
                            ELSE NoFile],
             build |-> EmptyFs]
    /\ todo = [handler |-> "init", answers |-> NoAnswers, n |-> 0]
    /\ result = [boxes |-> <<>>, modified_changed |-> <<>>,
                 name_changed |-> <<>>, event |-> "none", replaced |-> FALSE]

\* The record a handler starts with.
Gui ==
    [project |-> project, files |-> fs.files, build |-> fs.build,
     modified_changed |-> <<>>, name_changed |-> <<>>, boxes |-> <<>>,
     err |-> NoError, ret |-> TRUE, replaced |-> FALSE]

\* What every handler leaves.  An exception no handler catches ends the
\* program or is reported and dropped, as the PyQt5 in use has it.
Handled(g, handler, answers, event) ==
    /\ project' = g.project
    /\ fs' = [files |-> g.files, build |-> g.build]
    /\ error' = g.err
    /\ result' = [boxes |-> g.boxes, modified_changed |-> g.modified_changed,
                  name_changed |-> g.name_changed, event |-> event,
                  replaced |-> g.replaced]
    /\ todo' = [handler |-> handler, answers |-> answers, n |-> todo.n + 1]
    /\ pc' \in IF g.err # NoError THEN {"idle", "aborted"}
               ELSE IF event = "accept" THEN {"closed"} ELSE {"idle"}

\* What the user can answer to _current_project_done: a button when the
\* question is asked, a file name when Save opens the Save As dialog, and
\* what tree.write does when the project is saved.
DoneAnswers ==
    IF ~project.modified THEN {NoAnswers}
    ELSE {[NoAnswers EXCEPT !.ans = ans] : ans \in {"Cancel", "Discard"}}
         \cup {[NoAnswers EXCEPT !.ans = "Save", !.save_as = name,
                                 !.how = how] :
                name \in IF project.name # EMPTY THEN {EMPTY}
                         ELSE DialogNames \ {EMPTY},
                how \in WriteOutcomes}
         \cup IF project.name # EMPTY THEN {}
              ELSE {[NoAnswers EXCEPT !.ans = "Save"]}

Running == pc = "idle" /\ todo.n < MaxHandlers

\* ProjectGUI._new_project
NewProjectChosen ==
    /\ Running
    /\ \E a \in DoneAnswers :
        \E g \in {CurrentProjectDone(Gui, a.ans, a.save_as, a.how)} :
            Handled(IF g.ret THEN SetProject(g, NewProject(EMPTY)) ELSE g,
                    "new", a, "none")

\* ProjectGUI._open_project
OpenProjectChosen ==
    /\ Running
    /\ \E a \in DoneAnswers :
        \E g \in {CurrentProjectDone(Gui, a.ans, a.save_as, a.how)} :
            IF ~g.ret THEN Handled(g, "open", a, "none")
            ELSE \E filename \in DialogNames, read \in BOOLEAN :
                    /\ filename = EMPTY => read
                    /\ \E loaded \in {LoadProject(g.files, filename, read)} :
                        Handled(IF filename = EMPTY THEN g
                                ELSE IF loaded.err # NoError
                                THEN HandleException(
                                        [g EXCEPT !.err = loaded.err], "Open")
                                ELSE SetProject(g, loaded.value),
                                "open",
                                [a EXCEPT !.open = filename, !.read = read],
                                "none")

\* ProjectGUI._save_project from the menu; the action is enabled while the
\* project has a name
SaveProjectChosen ==
    /\ Running
    /\ project.name # EMPTY
    /\ \E how \in WriteOutcomes :
        Handled(GuiSaveProject(Gui, how), "save",
                [NoAnswers EXCEPT !.how = how], "none")

\* ProjectGUI._save_as_project from the menu
SaveAsProjectChosen ==
    /\ Running
    /\ \E filename \in DialogNames, how \in WriteOutcomes :
        /\ filename = EMPTY => how = "ok"
        /\ Handled(GuiSaveAsProject(Gui, filename, how), "save_as",
                   [NoAnswers EXCEPT !.save_as = filename, !.how = how],
                   "none")

\* ProjectGUI._build_project
BuildProjectChosen ==
    /\ Running
    /\ \E dir \in IF Prereqs(project) # None THEN {EMPTY}
                  ELSE {EMPTY, BuildDir},
          fault \in {NoFault, [at |-> 1, how |-> "fail"],
                     [at |-> 2, how |-> "fail"]} :
        /\ dir = EMPTY => fault = NoFault
        /\ Handled(BuildProject(Gui, dir, fault), "build",
                   [NoAnswers EXCEPT !.dir = dir], "none")

\* ProjectGUI.closeEvent
CloseEvent ==
    /\ Running
    /\ \E a \in DoneAnswers :
        \E g \in {CurrentProjectDone(Gui, a.ans, a.save_as, a.how)} :
            Handled(g, "close", a, IF g.ret THEN "accept" ELSE "ignore")

\* LocationsPage._host_interp_changed and _target_inc_changed
LocationEdited ==
    /\ Running
    /\ \E attr \in {"python_host_interpreter", "python_target_include_dir"},
          value \in {EMPTY, <<"h">>} :
        Handled(SetModified([Gui EXCEPT !.project[attr] = value], TRUE),
                "edit", [NoAnswers EXCEPT !.dir = value], "none")

NextGui ==
    \/ NewProjectChosen
    \/ OpenProjectChosen
    \/ SaveProjectChosen
    \/ SaveAsProjectChosen
    \/ BuildProjectChosen
    \/ CloseEvent
    \/ LocationEdited

SpecGui == InitGui /\ [][NextGui]_vars

(***************************************************************************)
(* What the Build Project handler needs before it builds.                  *)
(***************************************************************************)
\* The four names a build needs, by the attribute that holds each.
PrerequisiteAttrs ==
    {"application_script", "python_host_interpreter",
     "python_target_include_dir", "python_target_library"}

Unset == {attr \in PrerequisiteAttrs : project[attr] = EMPTY}

WarnedOfPrereq(boxes) ==
    \E i \in DOMAIN boxes :
        /\ boxes[i].icon = "Warning"
        /\ boxes[i].title = "Build Project"
        /\ boxes[i].about \in {"main script file", "host interpreter",
                               "target Python include directory",
                               "target Python library"}

\* C24, as a step: when one of the main script file, the host interpreter,
\* the target Python include directory and the target Python library is not
\* set, the Build Project handler warns of a missing prerequisite, asks for
\* no build directory and leaves everything builds write as it was; it
\* warns of none when the four are set.
BuildsOnlyWithPrerequisites ==
    todo'.handler = "build" =>
        IF Unset # {}
        THEN /\ WarnedOfPrereq(result'.boxes)
             /\ todo'.answers.dir = EMPTY
             /\ fs'.build = fs.build
        ELSE ~WarnedOfPrereq(result'.boxes)

C24_BuildNeedsAllFourPrerequisites == [][BuildsOnlyWithPrerequisites]_vars

(***************************************************************************)
(* A modified project and the handlers that replace or abandon it.         *)
(***************************************************************************)
\* The file the Save button of the question writes: the project's, or the
\* one chosen in the Save As dialog when the project has no name.
SaveDestination ==
    IF project.name # EMPTY THEN project.name ELSE todo'.answers.save_as

\* The user chose Save and the project was written to its file.
SaveCompleted ==
    /\ todo'.answers.ans = "Save"
    /\ todo'.answers.how = "ok"
    /\ SaveDestination \in DiskNames
    /\ fs'.files[SaveDestination] = ProjectFile(SaveProject(project))

Discarded == todo'.answers.ans = "Discard"

\* C29, as a step of New, Open or a close event on a modified project: the
\* project is replaced or the close event accepted only if the user chose
\* Discard or the project was saved; otherwise (Cancel, a save that failed,
\* a Save As dialog that was cancelled) the project stays as it is, its
\* modified flag included, and a close event is ignored.
ModifiedProjectKept ==
    (todo'.handler \in {"new", "open", "close"} /\ project.modified) =>
        /\ (result'.replaced \/ result'.event = "accept")
                => (Discarded \/ SaveCompleted)
        /\ ~(Discarded \/ SaveCompleted) =>
                /\ project' = project
                /\ ~result'.replaced
                /\ (todo'.handler = "close" => result'.event = "ignore")

C29_ModifiedProjectNotLost == [][ModifiedProjectKept]_vars

\* The window of a modified project was closed, the user chose Save and the
\* file could not be written: the close event was ignored and the project
\* is still modified.
C29_Witness ==
    /\ todo.handler = "close"
    /\ todo.answers.ans = "Save"
    /\ todo.answers.how = "noopen"
    /\ result.event = "ignore"
    /\ project.modified
    /\ pc = "idle"

(***************************************************************************)
(* OtherPackagesSubpage: the selector of package directories.  An item of  *)
(* the selector has the text shown, the package it holds and whether its   *)
(* text can be edited.                                                     *)
(***************************************************************************)
Item(text, package, editable) ==
    [text |-> text, package |-> package, editable |-> editable]

\* OtherPackagesSubpage._add_package_dir for the k-th package of the
\* project, or for no package when k is 0
AddPackageDir(items, p, k) ==
    Append(items,
           IF k = 0 THEN Item(EMPTY, QrcPackage(EMPTY, <<>>), TRUE)
           ELSE IF k = 1 THEN Item(SITE_PACKAGES, p.packages[k], FALSE)
           ELSE Item(p.packages[k].name, p.packages[k], TRUE))

\* 'for package in project.packages: self._add_package_dir(package)'
RECURSIVE AddPackageDirs(_, _, _)
AddPackageDirs(items, p, k) ==
    IF k > Len(p.packages) THEN items
    ELSE AddPackageDirs(AddPackageDir(items, p, k), p, k + 1)

\* OtherPackagesSubpage._update_page
UpdatePage(p) == AddPackageDir(AddPackageDirs(<<>>, p, 1), p, 0)

\* selector.takeTopLevelItem(itm_index)
TakeTopLevelItem(items, itm_index) ==
    SubSeq(items, 1, itm_index - 1) \o SubSeq(items, itm_index + 1, Len(items))

\* _package_dir_changed, the items of the selector it leaves: itm_index is
\* the item edited, from 1, and text the text the item was given
ItemsAfterEdit(items, p, itm_index, text) ==
    IF Strip(text) # EMPTY
    THEN Only({IF itm_index = Len(items) THEN AddPackageDir(renamed, p, 0)
               ELSE renamed :
               renamed \in {[items EXCEPT
                                ![itm_index].text = text,
                                ![itm_index].package.name =
                                    RelativePath(p, Strip(text))]}})
    ELSE TakeTopLevelItem(items, itm_index)

\* 'project.packages = [selector.topLevelItem(i).data(0, Qt.UserRole) for i
\* in range(selector.topLevelItemCount() - 1)]'
PackagesOf(items) == [i \in 1..(Len(items) - 1) |-> items[i].package]

(***************************************************************************)
(* SpecPackages: the names of package directories are edited.  result is   *)
(* the list of the selector's items, todo the last edit and how many edits *)
(* were made.                                                              *)
(***************************************************************************)
MaxEdits == 3

\* The texts an edit can leave in an item: the handler strips the text, so
\* white space at its ends, and nothing but white space, are among them.
EditedTexts ==
    {EMPTY, <<" ">>, <<"a">>, <<"/", "p", "/", "b">>, <<" ", "c">>}

InitPackages ==
    /\ \E pkgs \in {<<>>, <<QrcPackage(EMPTY, <<>>)>>,
                    <<QrcPackage(<<"s">>, <<>>),
                      QrcPackage(<<"q">>, <<QrcFile(PY_FILE, TRUE)>>)>>} :
        project = [NewProject(ProjectName) EXCEPT !.packages = pkgs]
    /\ pc = "idle"
    /\ error = NoError
    /\ fs = EmptyFs
    /\ todo = [index |-> 0, text |-> EMPTY, n |-> 0]
    /\ result = UpdatePage(project)

\* OtherPackagesSubpage._package_dir_changed: the selector emits itemChanged
\* when the text of an editable item was changed
PackageDirChanged ==
    /\ todo.n < MaxEdits
    /\ \E itm_index \in DOMAIN result, text \in EditedTexts :
        /\ result[itm_index].editable
        /\ text # result[itm_index].text
        /\ \E items \in {ItemsAfterEdit(result, project, itm_index, text)} :
            /\ result' = items
            /\ project' = [project EXCEPT !.packages = PackagesOf(items),
                                          !.modified = TRUE]
        /\ todo' = [index |-> itm_index, text |-> text, n |-> todo.n + 1]
    /\ UNCHANGED <<pc, error, fs>>

NextPackages == PackageDirChanged

SpecPackages == InitPackages /\ [][NextPackages]_vars

\* The last item of the selector is the blank one that holds no package of
\* the project.
PlaceholderLast ==
    /\ result # <<>>
    /\ result[Len(result)] = Item(EMPTY, QrcPackage(EMPTY, <<>>), TRUE)

\* The project's packages after an edit of item i that left text.
PackagesAfter(packages, i, text, name) ==
    IF i <= Len(packages)
    THEN IF Strip(text) = EMPTY THEN Without(packages, i)
         ELSE [packages EXCEPT ![i].name = name]
    ELSE IF Strip(text) = EMPTY THEN packages
         ELSE Append(packages, QrcPackage(name, <<>>))

\* C30: after any edits of directory names the last item of the selector is
\* the blank placeholder and project.packages is the list of the packages
\* of the items before it; an edit removes from project.packages the package
\* whose name was made blank and no other, renames the package edited or
\* adds the one named in the placeholder; and every edit leaves the project
\* modified.
C30_PlaceholderLastPackagesBefore ==
    /\ [](/\ PlaceholderLast
          /\ project.packages =
                [i \in 1..(Len(result) - 1) |-> result[i].package]
          /\ todo.n > 0 => project.modified)
    /\ [][\E name \in {RelativePath(project, Strip(todo'.text))} :
            project'.packages =
                PackagesAfter(project.packages, todo'.index, todo'.text,
                              name)]_vars

(***************************************************************************)
(* The outputs of the leaves of one tree.                                  *)
(***************************************************************************)
\* No directory of the tree, nor its root, holds two nodes of one name.
SiblingNamesDistinct ==
    \A p, q \in Positions(WalkedTree) :
        (/\ p # q
         /\ Len(p) = Len(q)
         /\ SubSeq(p, 1, Len(p) - 1) = SubSeq(q, 1, Len(q) - 1))
            => NodeAt(WalkedTree, p).name # NodeAt(WalkedTree, q).name

\* The files the walk wrote in the resources directory, in order.
StagingFiles ==
    [i \in DOMAIN fs.frozen |-> fs.frozen[i].output]
        \o [i \in DOMAIN fs.copied |-> fs.copied[i].dst]

NoneTwice(xs) == \A i, j \in DOMAIN xs : i # j => xs[i] # xs[j]

\* C25: when a resource group was written for a tree in which no directory
\* holds two nodes of one name, no two entries of the manifest are the same
\* path and no two of the files frozen or copied for it are the same file,
\* two files 'm.py' and 'm.pyw' of one directory included.
C25_DistinctLeavesDistinctOutputs ==
    (Walked /\ error = NoError /\ SiblingNamesDistinct) =>
        /\ NoneTwice(Entries)
        /\ NoneTwice(StagingFiles)

(***************************************************************************)
(* The Project under Builder.build.                                        *)
(***************************************************************************)
\* The project's packages hold nothing named as the PyQt package is.
NoPyQtEntry(p) ==
    \A i \in DOMAIN p.packages :
        \A j \in DOMAIN p.packages[i].contents :
            p.packages[i].contents[j].name # PyQtDir(p)

GroupContents(resource) ==
    IF resource = EMPTY THEN project.application_package.contents
    ELSE IF Len(project.packages) = 0 THEN <<>>
    ELSE project.packages[1].contents

\* The groups whose only included top-level entries are directories with no
\* emitted leaf below them; the PyQt package, when a PyQt module is
\* requested, is an entry of the site-packages group with a leaf.
LeaflessGroups ==
    {resource \in {EMPTY, SITE_PACKAGES} :
        /\ AnyIncluded(GroupContents(resource))
        /\ EmittedLeaves(GroupContents(resource)) = {}
        /\ resource = SITE_PACKAGES => Len(project.pyqt_modules) = 0}

\* The .qrc file of the group was written with no entry and the .pro file
\* names it.
WrittenEmptyAndListed(resource) ==
    \E i \in DOMAIN fs.qrcs :
        /\ fs.qrcs[i].resource = resource
        /\ fs.qrcs[i].entries = <<>>
        /\ (RESOURCES \o SEP \o fs.qrcs[i].file) \in ListedManifests

\* The bootstrap script mounts the group.
Mounted(resource) ==
    /\ fs.bootstrap.exists
    /\ \E k \in DOMAIN fs.bootstrap.sys_path :
            fs.bootstrap.sys_path[k] = MOUNT \o resource

\* C27: the included flags of the top-level entries alone decide whether
\* the application group and the site-packages group are resource groups:
\* after a build in which no call to the outside world failed, the
\* application group is written only if a top-level entry of its package is
\* included, and a group whose only included top-level entries are
\* directories with no emitted leaf below them is named in the .pro file,
\* has its .qrc file written with no entry, and is mounted in the sys.path
\* of the bootstrap script.
C27_LeaflessGroupListedWrittenMounted ==
    (Ended /\ error.type \notin {"UserException", "OSError"}) =>
        /\ \A i \in DOMAIN fs.qrcs :
                fs.qrcs[i].resource = EMPTY =>
                    AnyIncluded(project.application_package.contents)
        /\ \A resource \in LeaflessGroups :
                /\ WrittenEmptyAndListed(resource)
                /\ Mounted(resource)

(***************************************************************************)
(* The copy of freeze.py in the temporary directory.                       *)
(***************************************************************************)
\* build is past 'freeze = self._copy_lib_file('freeze.py')'.
CopyMade ==
    \/ pc \in {"write_qmake", "create_resources_dir", "resources", "done"}
    \/ pc = "raised" /\ Len(result) > 2

\* What is in the temporary directory between and after the steps of build.
CopyThereUnlessCompleted ==
    /\ (CopyMade /\ pc # "done") => (fs.tmp_freeze /\ ~fs.tmp_old)
    /\ pc = "done" => (~fs.tmp_freeze /\ ~fs.tmp_old)

\* The step that makes the copy, when the copying itself does not fail.
CopyReplacesOld ==
    (pc = "copy_freeze" /\ result'[Len(result')] = NoFault) =>
        /\ pc' = "write_qmake"
        /\ fs'.tmp_freeze
        /\ ~fs'.tmp_old
        /\ fs.tmp_old => fs'.removed = Append(fs.removed, "freeze.py")

\* C28: the copy of freeze.py build makes in the temporary directory is
\* there from the step that made it until build completes, and is not there
\* once build has completed: a build that raised after making the copy has
\* left it behind.  A build that finds the copy of an earlier build removes
\* it and makes its own; it does not fail on the file being there.
C28_TempCopyLeftUnlessCompleted ==
    /\ [](CopyThereUnlessCompleted)
    /\ [][CopyReplacesOld]_vars

\* A build that found the copy of an earlier build replaced it, then raised
\* and left its own copy behind.
C28_Witness ==
    /\ pc = "raised"
    /\ Len(result) > 2
    /\ fs.removed = <<"freeze.py">>
    /\ fs.tmp_freeze

============================================================================
